---- MODULE Spec2Model ----
(***************************************************************************)
(* Claim update / reconciliation / change-log flow of the billing-claims   *)
(* tool.                                                                   *)
(*                                                                         *)
(*   Claim State Manager  frontend/src/contexts/AuthContext.tsx            *)
(*                        (ClaimProvider: getClaim, updateClaim, ...)      *)
(*   Claim API client     frontend/src/App.tsx (claimService: updateClaim, *)
(*                        fetchClaimById, fetchClaims)                     *)
(*   Callers              unnamed/part_001 (SummaryCard, ClaimTabs),       *)
(*                        frontend/src/pages/ProfilePage.tsx               *)
(*   Store access         backend/src/config/db.ts                         *)
(*   Claim Service        routes/claims is not part of the sources; its    *)
(*                        update operation is modelled from spec.md 4.1    *)
(*                                                                         *)
(* JavaScript values are modelled as strings; Null stands for null, a      *)
(* string starting with # for a number ("#150" is 150, "150" the string).  *)
(* A claim is a function from field names to values, a partial update is a *)
(* function on a subset of the field names.  React state setters called in *)
(* one synchronous stretch of a handler (between two awaits) are one step. *)
(***************************************************************************)
EXTENDS Integers, Naturals, Sequences, FiniteSets, TLC

\* ------------------------------------------------------------------ bounds
MaxUpdates == 2
MaxLog == 3
MaxReads == 2
MaxMounts == 2
MaxSearches == 2
MaxCreated == 1
MaxClicks == 2

\* --------------------------------------------------------------- constants
\* updateClaimAPI(currentClaim.id.toString(), claimWithUserInfo, 3)
Retries == 3
\* const CACHE_EXPIRY = 5 * 60 * 1000
CACHE_EXPIRY == 300000
\* now - lastFetchTime < 10000
FetchThrottle == 10000

Null == "null"
NoClaim == [id |-> "none"]
NoError == "no-error"
NoResp == [kind |-> "none"]

ServerIds == {"1", "2"}
StatusOptions == {"Insurance Paid", "Prim Denied"}
\* Claim Details form contents at a save: <<chargeDt, chargeAmount>>
ClaimDetailsInputs == {<<"2025-03-04", "150">>, <<"2025-03-05T00:00:00.000Z", "0">>}

\* The host's Date.parse, "strict" or "lenient" (see ParsesAsDate)
VARIABLE dateParse

\* ------------------------------------------------------------------ fields
CanonicalFields == {"claim_status", "charge_amt", "charge_dt"}
RowFields == {"id"} \cup CanonicalFields
dateFields == {"charge_dt"}
numericFields == {"charge_amt"}
legacyFields == {"checkNumber", "amount", "status", "updatedAt", "createdAt"}

\* { ...a, ...b }
Merge(a, b) == [f \in (DOMAIN a) \cup (DOMAIN b) |-> IF f \in DOMAIN b THEN b[f] ELSE a[f]]

Without(a, fs) == [f \in (DOMAIN a) \ fs |-> a[f]]

\* the numbers used here; NaN is a number
NaN == "#NaN"
JsNumbers == {"#0", "#12", "#12.5", "#150", NaN}

\* !v: null, the empty string, 0 and NaN are falsy (the string "0" is not)
Falsy(v) == v \in {Null, "", "#0", NaN}

\* parseFloat(v): the number a string starts with, NaN when it starts with
\* none; a number is converted to its string first and so returns itself
parseFloat(v) ==
    CASE v \in JsNumbers -> v
      [] v = "0" -> "#0"
      [] v = "150" -> "#150"
      [] v = "12.50" -> "#12.5"
      [] v = "12abc" -> "#12"
      [] OTHER -> NaN

\* a || b
OrElse(a, b) == IF Falsy(a) THEN b ELSE a

\* the calendar dates used here, written YYYY-MM-DD
IsoDates == {"2025-03-03", "2025-03-04", "2025-03-05"}

\* value.match(/^\d{4}-\d{2}-\d{2}$/): the calendar dates, and 31 February,
\* which has the form without being a date
IsIsoDate(v) == v \in IsoDates \cup {"2025-02-31"}

\* !isNaN(new Date(value).getTime()) on the strings used here.  A date-only
\* string whose day is past the end of its month is an Invalid Date for a
\* Date.parse that follows the standard, and rolls over into the next month
\* for a lenient one.
ParsesAsDate(v) ==
    \/ v \in IsoDates
    \/ v = "2025-03-05T00:00:00.000Z"
    \/ v = "2025-02-31" /\ dateParse = "lenient"

\* new Date(value).toISOString().split('T')[0] of a value that parses: a
\* YYYY-MM-DD date parses as UTC midnight and prints as itself, a UTC
\* timestamp prints as its date part, 31 February as 3 March.
ToIsoDate(v) ==
    CASE v = "2025-03-05T00:00:00.000Z" -> "2025-03-05"
      [] v = "2025-02-31" -> "2025-03-03"
      [] OTHER -> v

\* ClaimProvider.formatDateFields
formatDateFields(data) ==
    [f \in DOMAIN data |->
        IF f \in dateFields /\ ~Falsy(data[f]) /\ ParsesAsDate(data[f])
        THEN ToIsoDate(data[f]) ELSE data[f]]

\* claimService formatDateValue
formatDateValue(v) ==
    IF Falsy(v) THEN v
    ELSE IF IsIsoDate(v) THEN v
    ELSE IF ParsesAsDate(v) THEN ToIsoDate(v) ELSE v

\* claimService updateClaim: building sanitizedData (the PUT body); the
\* variant converts the empty string like any other string and sends 0 for it
sanitizedData_EmptyToZero(data) ==
    LET num(d) == [f \in DOMAIN d |->
                     IF f \in numericFields /\ d[f] # Null
                     THEN (IF d[f] = "" THEN "#0"
                           ELSE IF parseFloat(d[f]) # NaN THEN parseFloat(d[f]) ELSE d[f])
                     ELSE d[f]]
        dat(d) == [f \in DOMAIN d |->
                     IF f \in dateFields
                     THEN (IF d[f] = Null \/ d[f] = "" THEN Null ELSE formatDateValue(d[f]))
                     ELSE d[f]]
    IN  Without(dat(num(data)), legacyFields)

sanitizedData(data) ==
    LET num(d) == [f \in DOMAIN d |->
                     IF f \in numericFields /\ d[f] # Null
                     THEN (IF d[f] = "" THEN Null
                           ELSE IF parseFloat(d[f]) # NaN THEN parseFloat(d[f]) ELSE d[f])
                     ELSE d[f]]
        dat(d) == [f \in DOMAIN d |->
                     IF f \in dateFields
                     THEN (IF d[f] = Null \/ d[f] = "" THEN Null ELSE formatDateValue(d[f]))
                     ELSE d[f]]
    IN  Without(dat(num(data)), legacyFields)

\* JSON.stringify of a value of the body: NaN is written as null
JsonValue(v) == IF v = NaN THEN Null ELSE v

\* the PUT body on the wire: axios.put(url, sanitizedData, ...)
PutBody(data) == [f \in DOMAIN sanitizedData(data) |-> JsonValue(sanitizedData(data)[f])]

\* ClaimProvider updateClaim: claimWithUserInfo (no user is logged in here)
WithUserInfo(formattedData) == Merge(formattedData, [user_id |-> "#1", username |-> "System"])

\* ClaimProvider mapApiClaimToVisitClaim
mapApiClaimToVisitClaim(apiClaim) ==
    [id           |-> apiClaim.id,
     claim_status |-> OrElse(apiClaim.claim_status, "Pending"),
     charge_dt    |-> OrElse(apiClaim.charge_dt, Null),
     charge_amt   |-> apiClaim.charge_amt,
     amount       |-> OrElse(apiClaim.charge_amt, "#0"),
     status       |-> OrElse(apiClaim.claim_status, "Pending")]

\* prev.map(c => c.id === id ? repl : c)
MapReplace(list, id, repl) ==
    [i \in 1..Len(list) |-> IF list[i].id = id THEN repl ELSE list[i]]

\* claims.find(c => c.id === numericId)
Find(list, id) ==
    IF \E i \in 1..Len(list) : list[i].id = id
    THEN list[CHOOSE i \in 1..Len(list) :
                 list[i].id = id /\ \A j \in 1..(i - 1) : list[j].id # id]
    ELSE NoClaim

\* ------------------------------------------------------------------- state
VARIABLES
    claims,          \* ClaimProvider state: claims
    searchResults,   \* ClaimProvider state: searchResults
    currentClaim,    \* ClaimProvider state: currentClaim (NoClaim for null)
    isLoading,       \* ClaimProvider state: isLoading
    error,           \* ClaimProvider state: error (NoError for null)
    initialLoad,     \* loadInitialClaims: "init", "loading", "done"
    getc,            \* the getClaim call awaiting fetchClaimById, if any
    upd,             \* the updateClaim calls, one record per call
    showDetails,     \* ProfilePage state: showDetails (ClaimTabs rendered)
    localIsLoading,  \* ClaimTabs state of the mounted instance
    store,           \* Claim Store: claim rows by id
    changeLog,       \* Claim Store: change-log rows, oldest first
    tx,              \* the Claim Service transaction in progress, or how the last one ended
    wire,            \* an update payload on its way to the wire (see the payload section)
    rd,              \* the API client's read calls, one record per call
    hist,            \* HistorySection: the component instances and their state
    historyCache,    \* HistorySection module: historyCache, by claim id
    now,             \* Date.now(), in milliseconds
    hreq,            \* the loadHistory calls awaiting fetchClaimHistory, and the ones
                     \* that returned at the isMounted test
    route,           \* the page the router shows: "profile" or "search"
    srch,            \* the searchClaims calls, one record per call
    um,              \* UserManagement state and the logged-in user
    form,            \* ClaimTabs state: the active tab and the Claim Details form
    page             \* ProfilePage: the route id and its getClaim effect

wireVars == <<dateParse, wire>>

readVars == <<rd>>

histVars == <<hist, historyCache, now, hreq>>


uiVars == <<route, srch, um, form, page>>

auxVars == <<wireVars, readVars, histVars, uiVars>>

vars == <<claims, searchResults, currentClaim, isLoading, error, initialLoad, getc,
          upd, showDetails, localIsLoading, store, changeLog, tx, auxVars>>

clientVars == <<claims, searchResults, currentClaim, isLoading, error, initialLoad, getc,
                upd, showDetails, localIsLoading>>

storeVars == <<store, changeLog, tx>>

Slots == 1..MaxUpdates

IdleUpd ==
    [pc |-> "idle", origin |-> "none", live |-> FALSE, capId |-> "none",
     before |-> NoClaim, optimistic |-> NoClaim, payload |-> [id |-> "none"],
     retries |-> 0, puts |-> 0, gets |-> 0, resp |-> NoResp,
     lastErr |-> NoError, outcome |-> "none", msg |-> NoError, refetched |-> NoClaim]

NoTx == [u |-> 0, status |-> "none", wrote |-> FALSE]

InitRow(i) ==
    [id |-> i, claim_status |-> IF i = "1" THEN "Prim Denied" ELSE Null,
     charge_amt |-> IF i = "1" THEN "#150" ELSE Null,
     charge_dt |-> IF i = "1" THEN "2025-03-04" ELSE Null]

IdSeq == <<"1", "2">>

WireIdle == dateParse = "strict" /\ wire = [pc |-> "none"]

ReadIdle == rd = <<>>

\* Date.now() when the page is loaded
T0 == 1000000

HistInstances == 1..MaxMounts

\* a HistorySection instance before it is mounted: the useState and useRef
\* initial values (lastResult records how the last load applied ended)
NewHist ==
    [life |-> "new", claimId |-> "none", history |-> <<>>, isLoading |-> FALSE,
     error |-> NoError, lastFetchTime |-> 0, isMounted |-> TRUE, lastResult |-> "none"]

NoCacheEntry == [present |-> FALSE, data |-> <<>>, timestamp |-> 0]

HistIdle ==
    /\ hist = [i \in HistInstances |-> NewHist]
    /\ historyCache = [c \in ServerIds |-> NoCacheEntry]
    /\ now = T0
    /\ hreq = {}

SearchSlots == 1..MaxSearches

\* src/components/user/UserManagement.tsx: mockUsers
mockUsers ==
    << [id |-> "1", email |-> "HBilling_RCM@HBOX.AI", role |-> "Admin"],
       [id |-> "2", email |-> "syed.a@hbox.ai", role |-> "User"],
       [id |-> "3", email |-> "john.d@hbox.ai", role |-> "User"],
       [id |-> "4", email |-> "maria.r@hbox.ai", role |-> "Admin"] >>

NoUser == [id |-> "none", email |-> "none", role |-> "none"]

\* UserManagement before anyone is logged in: the useState initial values
UmIdle ==
    [user |-> NoUser, users |-> mockUsers, userToDelete |-> NoUser,
     isDeleteModalOpen |-> FALSE, showPermissionError |-> FALSE, created |-> 0]

NoForm == [pc |-> "none"]

UiIdle ==
    /\ route = "profile"
    /\ srch = [k \in SearchSlots |-> [pc |-> "idle", outcome |-> "none"]]
    /\ um = UmIdle
    /\ form = NoForm
    /\ page = [pc |-> "none"]

AuxIdle == WireIdle /\ ReadIdle /\ HistIdle /\ UiIdle

\* ClaimProvider, ProfilePage and the store after construction
ClientInit ==
    /\ claims = <<>>
    /\ searchResults = <<>>
    /\ currentClaim = NoClaim
    /\ isLoading = FALSE
    /\ error = NoError
    /\ initialLoad = "init"
    /\ getc = [pc |-> "idle", id |-> "none"]
    /\ upd = [u \in Slots |-> IdleUpd]
    /\ showDetails = FALSE
    /\ localIsLoading = FALSE
    /\ store = [i \in ServerIds |-> InitRow(i)]
    /\ changeLog = <<>>
    /\ tx = NoTx

Init == ClientInit /\ AuxIdle

\* ProfilePage renders SummaryCard, ClaimTabs and HistorySection only while
\* currentClaim is non-null; ClaimTabs only while showDetails.
TabsMounted(cur, sd) == cur # NoClaim /\ sd

\* Component state after a render with current claim cur and showDetails sd:
\* an unmounted ClaimTabs loses its state, and the updates an
\* unmounted ClaimTabs instance started are no longer live.
Rendered(cur, sd, u2, lil) ==
    /\ upd' = [u \in Slots |->
                 IF TabsMounted(cur, sd) THEN u2[u] ELSE [u2[u] EXCEPT !.live = FALSE]]
    /\ localIsLoading' = (TabsMounted(cur, sd) /\ lil)

\* ------------------------------------------------- ClaimProvider: initial load
LoadInitialClaims ==
    /\ initialLoad = "init"
    /\ initialLoad' = "loading"
    /\ isLoading' = TRUE
    /\ error' = NoError
    /\ UNCHANGED <<claims, searchResults, currentClaim, getc, upd, showDetails,
                   localIsLoading, store, changeLog, tx>>
    /\ UNCHANGED auxVars

LoadInitialReturn ==
    /\ initialLoad = "loading"
    /\ initialLoad' = "done"
    /\ isLoading' = FALSE
    /\ \E ok \in BOOLEAN :
         IF ok
         THEN /\ claims' = [i \in 1..Len(IdSeq) |-> mapApiClaimToVisitClaim(store[IdSeq[i]])]
              /\ searchResults' = claims'
              /\ error' = error
         ELSE /\ claims' = <<>>
              /\ searchResults' = <<>>
              /\ error' = "Network error"
    /\ UNCHANGED <<currentClaim, getc, upd, showDetails, localIsLoading,
                   store, changeLog, tx>>
    /\ UNCHANGED auxVars

\* ------------------------------------------------------ ClaimProvider: getClaim
GetClaim(r) ==
    /\ ~isLoading
    /\ getc.pc = "idle"
    /\ error' = NoError
    /\ LET claim == Find(claims, r) IN
         IF claim # NoClaim
         THEN /\ currentClaim' = claim
              /\ isLoading' = FALSE
              /\ getc' = getc
              /\ Rendered(claim, showDetails, upd, localIsLoading)
         ELSE /\ isLoading' = TRUE
              /\ getc' = [pc |-> "fetch", id |-> r]
              /\ UNCHANGED <<currentClaim, upd, localIsLoading>>
    /\ UNCHANGED <<claims, searchResults, initialLoad, showDetails, store, changeLog, tx>>
    /\ UNCHANGED auxVars

GetClaimReturn ==
    /\ getc.pc = "fetch"
    /\ getc' = [pc |-> "idle", id |-> "none"]
    /\ isLoading' = FALSE
    /\ \E ok \in BOOLEAN :
         IF ok
         THEN /\ currentClaim' = mapApiClaimToVisitClaim(store[getc.id])
              /\ error' = error
         ELSE /\ currentClaim' = NoClaim
              /\ error' = "Network error"
    /\ Rendered(currentClaim', showDetails, upd, localIsLoading)
    /\ UNCHANGED <<claims, searchResults, initialLoad, showDetails, store, changeLog, tx>>
    /\ UNCHANGED auxVars

\* ------------------------------------------------------------------ ProfilePage
ToggleDetails ==
    /\ currentClaim # NoClaim
    /\ showDetails' = ~showDetails
    /\ Rendered(currentClaim, showDetails', upd, localIsLoading)
    /\ UNCHANGED <<claims, searchResults, currentClaim, isLoading, error, initialLoad,
                   getc, store, changeLog, tx>>
    /\ UNCHANGED auxVars

\* --------------------------------------------------- ClaimProvider: updateClaim
\* setCurrentClaim(optimisticClaim) and the two list updates (without the
\* searchResults update in the variant)
ApplyOptimistic_NotInSearchResults(optimisticClaim) ==
    /\ currentClaim' = optimisticClaim
    /\ claims' = MapReplace(claims, currentClaim.id, optimisticClaim)
    /\ searchResults' = searchResults

ApplyOptimistic(optimisticClaim) ==
    /\ currentClaim' = optimisticClaim
    /\ claims' = MapReplace(claims, currentClaim.id, optimisticClaim)
    /\ searchResults' = MapReplace(searchResults, currentClaim.id, optimisticClaim)

\* setCurrentClaim(mappedClaim) and the two list updates with the server data
\* (the variant keeps the optimistic current claim)
ApplyCommitted_ListsOnly(mappedClaim) ==
    /\ currentClaim' = currentClaim
    /\ claims' = MapReplace(claims, mappedClaim.id, mappedClaim)
    /\ searchResults' = MapReplace(searchResults, mappedClaim.id, mappedClaim)

ApplyCommitted(mappedClaim) ==
    /\ currentClaim' = mappedClaim
    /\ claims' = MapReplace(claims, mappedClaim.id, mappedClaim)
    /\ searchResults' = MapReplace(searchResults, mappedClaim.id, mappedClaim)

\* setCurrentClaim(originalMappedClaim) and the two list updates that revert
\* the optimistic update (the variant reverts the current claim only)
ApplyRollback_CurrentOnly(id, originalMappedClaim) ==
    /\ currentClaim' = originalMappedClaim
    /\ claims' = claims
    /\ searchResults' = searchResults

ApplyRollback(id, originalMappedClaim) ==
    /\ currentClaim' = originalMappedClaim
    /\ claims' = MapReplace(claims, id, originalMappedClaim)
    /\ searchResults' = MapReplace(searchResults, id, originalMappedClaim)

\* The synchronous stretch of updateClaim up to the first await: date
\* formatting, the optimistic merge into currentClaim, claims and
\* searchResults, and the call of the API client, which issues the first PUT.
UpdateBegin(u, origin, updatedClaimData) ==
    LET formattedData == formatDateFields(updatedClaimData)
        claimWithUserInfo == WithUserInfo(formattedData)
        optimisticClaim == Merge(currentClaim, formattedData)
    IN  /\ upd[u].pc = "idle"
        /\ \A v \in Slots : v < u => upd[v].pc # "idle"
        /\ currentClaim # NoClaim
        /\ isLoading' = TRUE
        /\ error' = NoError
        /\ ApplyOptimistic(optimisticClaim)
        /\ upd' = [upd EXCEPT ![u] =
                     [IdleUpd EXCEPT !.pc = "put", !.origin = origin,
                                     !.live = (origin = "tabs"),
                                     !.capId = currentClaim.id,
                                     !.before = currentClaim,
                                     !.optimistic = optimisticClaim,
                                     !.payload = claimWithUserInfo,
                                     !.retries = Retries, !.puts = 1]]

\* updateClaim called by a consumer of the context while currentClaim is
\* null: the throw at the top of the try, the catch block and the finally
\* block run before the call returns its rejected promise (the variant
\* goes on to the rollback re-fetch)
UpdateNoCurrentClaim_Refetches(u) ==
    /\ upd[u].pc = "idle"
    /\ \A v \in Slots : v < u => upd[v].pc # "idle"
    /\ currentClaim = NoClaim
    /\ error' = "No current claim selected to update"
    /\ isLoading' = TRUE
    /\ upd' = [upd EXCEPT ![u] =
                 [IdleUpd EXCEPT !.pc = "refetch", !.origin = "context",
                                 !.gets = 1,
                                 !.msg = "No current claim selected to update"]]
    /\ UNCHANGED <<claims, searchResults, currentClaim, initialLoad, getc, showDetails,
                   localIsLoading, store, changeLog, tx>>
    /\ UNCHANGED auxVars

UpdateNoCurrentClaim(u) ==
    /\ upd[u].pc = "idle"
    /\ \A v \in Slots : v < u => upd[v].pc # "idle"
    /\ currentClaim = NoClaim
    /\ error' = "No current claim selected to update"
    /\ isLoading' = FALSE
    /\ upd' = [upd EXCEPT ![u] =
                 [IdleUpd EXCEPT !.pc = "done", !.origin = "context",
                                 !.outcome = "rejected",
                                 !.msg = "No current claim selected to update"]]
    /\ UNCHANGED <<claims, searchResults, currentClaim, initialLoad, getc, showDetails,
                   localIsLoading, store, changeLog, tx>>
    /\ UNCHANGED auxVars

\* SummaryCard.handleSaveStatus
handleSaveStatus(u, selectedStatus) ==
    /\ UpdateBegin(u, "summary",
                   [id |-> currentClaim.id, claim_status |-> selectedStatus,
                    status |-> IF selectedStatus \in {"Posted", "Pending", "Rejected"}
                               THEN selectedStatus ELSE "Pending"])
    /\ UNCHANGED <<initialLoad, getc, showDetails, localIsLoading, store, changeLog, tx>>
    /\ UNCHANGED auxVars

\* parseFloat(chargeAmount) || 0
ParseFloatOrZero(a) == OrElse(parseFloat(a), "#0")

\* ClaimTabs Save button: disabled={localIsLoading || ...} (the variant is
\* never disabled)
SaveEnabled_Always == TabsMounted(currentClaim, showDetails)

SaveEnabled == TabsMounted(currentClaim, showDetails) /\ ~localIsLoading

\* ClaimTabs.handleSaveClaimDetails
handleSaveClaimDetails(u, chargeDt, chargeAmount) ==
    /\ SaveEnabled
    /\ chargeDt # "" /\ chargeAmount # ""
    /\ UpdateBegin(u, "tabs",
                   [id |-> currentClaim.id, charge_dt |-> chargeDt,
                    charge_amt |-> ParseFloatOrZero(chargeAmount)])
    /\ localIsLoading' = TRUE
    /\ UNCHANGED <<initialLoad, getc, showDetails, store, changeLog, tx>>
    /\ UNCHANGED auxVars

\* The continuation of the caller once the updateClaim promise settles:
\* ClaimTabs' finally block clears localIsLoading, unless the instance that
\* started the update is no longer mounted.
CallerSettled(u) ==
    localIsLoading' = IF upd[u].origin = "tabs" /\ upd[u].live THEN FALSE ELSE localIsLoading

\* updateClaim, success branch: response.success && response.data
UpdateCommitted(u, row) ==
    LET mappedClaim == mapApiClaimToVisitClaim(row) IN
    /\ ApplyCommitted(mappedClaim)
    /\ isLoading' = FALSE
    /\ error' = error
    /\ upd' = [upd EXCEPT ![u].pc = "done", ![u].outcome = "resolved", ![u].resp = NoResp]
    /\ CallerSettled(u)

\* updateClaim, failure branch up to the await of fetchClaimById
UpdateFailed(u, errorMsg) ==
    /\ error' = errorMsg
    /\ upd' = [upd EXCEPT ![u].pc = "refetch", ![u].msg = errorMsg,
                          ![u].gets = @ + 1, ![u].resp = NoResp]
    /\ UNCHANGED <<currentClaim, claims, searchResults, isLoading, localIsLoading>>

\* claimService updateClaim, catch block: retry after the delay while
\* retries > 0, otherwise return { success: false, message, data: null }
\* (the variant tests retries >= 0)
CatchPut_OneMore(u, message) ==
    IF upd[u].retries >= 0
    THEN /\ upd' = [upd EXCEPT ![u].pc = "delay", ![u].retries = @ - 1, ![u].resp = NoResp,
                               ![u].lastErr = message]
         /\ UNCHANGED <<currentClaim, claims, searchResults, isLoading, error, localIsLoading>>
    ELSE UpdateFailed(u, message)

CatchPut(u, message) ==
    IF upd[u].retries > 0
    THEN /\ upd' = [upd EXCEPT ![u].pc = "delay", ![u].retries = @ - 1, ![u].resp = NoResp,
                               ![u].lastErr = message]
         /\ UNCHANGED <<currentClaim, claims, searchResults, isLoading, error, localIsLoading>>
    ELSE UpdateFailed(u, message)

\* the PUT fails without reaching the Claim Service (connection refused/reset)
PutNetworkError(u) ==
    /\ upd[u].pc = "put"
    /\ CatchPut(u, "Network Error")
    /\ UNCHANGED <<initialLoad, getc, showDetails, store, changeLog, tx>>
    /\ UNCHANGED auxVars

\* the response does not arrive within the 15 s timeout
PutTimeout(u) ==
    /\ upd[u].pc = "resp"
    /\ CatchPut(u, "timeout of 15000ms exceeded")
    /\ UNCHANGED <<initialLoad, getc, showDetails, store, changeLog, tx>>
    /\ UNCHANGED auxVars

\* the response arrives: a 2xx body is returned to the State Manager as it
\* is, any other status makes axios throw (in the variant the result of a
\* retried call is not returned to the caller)
PutResponse_DropsRetryResult(u) ==
    /\ upd[u].pc = "resp"
    /\ LET r == upd[u].resp IN
         CASE r.kind = "ok" /\ upd[u].puts = 1 -> UpdateCommitted(u, r.row)
           [] r.kind = "ok" /\ upd[u].puts > 1 -> UpdateFailed(u, "Failed to update claim in database")
           [] r.kind = "okFalse" -> UpdateFailed(u, "Failed to update claim in database")
           [] r.kind = "e4xx" -> CatchPut(u, "Request failed with status code 400")
           [] r.kind = "e5xx" -> CatchPut(u, "Request failed with status code 500")
    /\ UNCHANGED <<initialLoad, getc, showDetails, store, changeLog, tx>>
    /\ UNCHANGED auxVars

PutResponse(u) ==
    /\ upd[u].pc = "resp"
    /\ LET r == upd[u].resp IN
         CASE r.kind = "ok" -> UpdateCommitted(u, r.row)
           [] r.kind = "okFalse" -> UpdateFailed(u, "Failed to update claim in database")
           [] r.kind = "e4xx" -> CatchPut(u, "Request failed with status code 400")
           [] r.kind = "e5xx" -> CatchPut(u, "Request failed with status code 500")
    /\ UNCHANGED <<initialLoad, getc, showDetails, store, changeLog, tx>>
    /\ UNCHANGED auxVars

\* setTimeout(resolve, 1500) elapsed: updateClaim(id, data, retries - 1)
RetryPut(u) ==
    /\ upd[u].pc = "delay"
    /\ upd' = [upd EXCEPT ![u].pc = "put", ![u].puts = @ + 1, ![u].lastErr = NoError]
    /\ UNCHANGED <<claims, searchResults, currentClaim, isLoading, error, initialLoad, getc,
                   showDetails, localIsLoading, store, changeLog, tx>>
    /\ UNCHANGED auxVars

\* updateClaim, failure branch after the await of fetchClaimById, then the
\* throw, the catch block and the finally block
RefetchReturn(u) ==
    /\ upd[u].pc = "refetch"
    /\ \E ok \in BOOLEAN :
         IF ok
         THEN LET originalMappedClaim == mapApiClaimToVisitClaim(store[upd[u].capId]) IN
              /\ ApplyRollback(upd[u].capId, originalMappedClaim)
              /\ upd' = [upd EXCEPT ![u].pc = "done", ![u].outcome = "rejected",
                                    ![u].refetched = originalMappedClaim]
         ELSE /\ UNCHANGED <<currentClaim, claims, searchResults>>
              /\ upd' = [upd EXCEPT ![u].pc = "done", ![u].outcome = "rejected"]
    /\ error' = upd[u].msg
    /\ isLoading' = FALSE
    /\ CallerSettled(u)
    /\ UNCHANGED <<initialLoad, getc, showDetails, store, changeLog, tx>>
    /\ UNCHANGED auxVars

\* ------------------------------------------------ Claim Service: update (4.1)
\* The fields of a PUT body the service acts on: the known canonical ones,
\* an empty string for a numeric field meaning null, dates in YYYY-MM-DD.
ServiceFields(body) ==
    [f \in (DOMAIN body) \cap CanonicalFields |->
        IF f \in numericFields /\ body[f] = "" THEN Null
        ELSE IF f \in dateFields THEN (IF body[f] = "" THEN Null ELSE formatDateValue(body[f]))
        ELSE body[f]]

\* the fields of the request whose value differs from the stored one
ChangedFields(old, req) == {f \in DOMAIN req : req[f] # old[f]}

FieldOrder == <<"claim_status", "charge_amt", "charge_dt">>

\* one change-log row per changed field, in column order (the variant logs
\* every field of the request)
LogEntries_AllFields(old, req, username, ts) ==
    LET Present(i) == FieldOrder[i] \in DOMAIN req
        Entry(i) == [claim_id |-> old.id, field_name |-> FieldOrder[i],
                     old_value |-> old[FieldOrder[i]], new_value |-> req[FieldOrder[i]],
                     username |-> username, ts |-> ts]
    IN  SelectSeq([i \in 1..Len(FieldOrder) |-> IF Present(i) THEN Entry(i) ELSE [claim_id |-> "none"]],
                  LAMBDA e : e.claim_id # "none")

LogEntries(old, req, username, ts) ==
    LET Changed(i) == FieldOrder[i] \in ChangedFields(old, req)
        Entry(i) == [claim_id |-> old.id, field_name |-> FieldOrder[i],
                     old_value |-> old[FieldOrder[i]], new_value |-> req[FieldOrder[i]],
                     username |-> username, ts |-> ts]
    IN  SelectSeq([i \in 1..Len(FieldOrder) |-> IF Changed(i) THEN Entry(i) ELSE [claim_id |-> "none"]],
                  LAMBDA e : e.claim_id # "none")

\* the row a committed update leaves in the store
UpdatedRow(old, req) == Merge(old, req)

\* PUT /api/claims/:id handled by the Claim Service as one atomic unit: the
\* row update and the change-log inserts commit together and the full
\* updated row is returned
ServicePut(u) ==
    /\ upd[u].pc = "put"
    /\ LET body == PutBody(upd[u].payload)
           old == store[upd[u].capId]
           req == ServiceFields(body)
       IN  /\ store' = [store EXCEPT ![old.id] = UpdatedRow(old, req)]
           /\ changeLog' = changeLog \o LogEntries(old, req, body.username, Len(changeLog) + 1)
           /\ upd' = [upd EXCEPT ![u].pc = "resp",
                                 ![u].resp = [kind |-> "ok", row |-> UpdatedRow(old, req)]]
    /\ UNCHANGED <<claims, searchResults, currentClaim, isLoading, error, initialLoad, getc,
                   showDetails, localIsLoading, tx>>
    /\ UNCHANGED auxVars

\* The request is refused or fails without any write: ValidationError /
\* NotFoundError (4xx, or a 2xx body { success: false }), PersistenceError (5xx)
ServiceReject(u, kind) ==
    /\ upd[u].pc = "put"
    /\ upd' = [upd EXCEPT ![u].pc = "resp", ![u].resp = [kind |-> kind]]
    /\ UNCHANGED <<claims, searchResults, currentClaim, isLoading, error, initialLoad, getc,
                   showDetails, localIsLoading, store, changeLog, tx>>
    /\ UNCHANGED auxVars

\* ------------------------------------- Claim Service: the update transaction
\* The same update, step by step inside one store transaction (BEGIN, UPDATE,
\* one INSERT per changed field, COMMIT), with a storage failure possible at
\* every step.
PutBodies ==
    {[id |-> i, username |-> "System", claim_status |-> s] :
        i \in ServerIds, s \in StatusOptions}
    \cup {[id |-> i, username |-> "System", charge_dt |-> d, charge_amt |-> a] :
            i \in ServerIds, d \in {"2025-03-04", "2025-03-05"}, a \in {"", "#150"}}

TxBegin(body) ==
    /\ tx.u = 0
    /\ Len(changeLog) < MaxLog
    /\ LET old == store[body.id] IN
         tx' = [u |-> 1, status |-> "open", wrote |-> FALSE, old |-> old,
                req |-> ServiceFields(body), username |-> body.username,
                row |-> old, rowWritten |-> FALSE, log |-> <<>>]
    /\ UNCHANGED <<clientVars, store, changeLog>>
    /\ UNCHANGED auxVars

\* UPDATE of the claim row inside the transaction
TxUpdateRow ==
    /\ tx.u # 0
    /\ ~tx.rowWritten
    /\ tx' = [tx EXCEPT !.row = UpdatedRow(tx.old, tx.req), !.rowWritten = TRUE]
    /\ UNCHANGED <<clientVars, store, changeLog>>
    /\ UNCHANGED auxVars

\* INSERT of the next change-log row inside the transaction
TxInsertLog ==
    /\ tx.u # 0
    /\ tx.rowWritten
    /\ LET entries == LogEntries(tx.old, tx.req, tx.username, Len(changeLog) + 1) IN
         /\ Len(tx.log) < Len(entries)
         /\ tx' = [tx EXCEPT !.log = Append(@, entries[Len(tx.log) + 1])]
    /\ UNCHANGED <<clientVars, store, changeLog>>
    /\ UNCHANGED auxVars

\* what a transaction that ends leaves in the store
Publish(row, log) ==
    /\ store' = [store EXCEPT ![row.id] = row]
    /\ changeLog' = changeLog \o log

\* COMMIT: the row and the change-log rows become visible together
TxCommit ==
    /\ tx.u # 0
    /\ tx.rowWritten
    /\ Len(tx.log) = Cardinality(ChangedFields(tx.old, tx.req))
    /\ Publish(tx.row, tx.log)
    /\ tx' = [u |-> 0, status |-> "committed", wrote |-> TRUE]
    /\ UNCHANGED clientVars
    /\ UNCHANGED auxVars

\* PersistenceError: a storage failure at any point of the transaction rolls
\* it back; nothing of it reaches the store (in the variant the row written
\* so far stays)
TxAbort_KeepsRow ==
    /\ tx.u # 0
    /\ Publish(tx.row, <<>>)
    /\ tx' = [u |-> 0, status |-> "aborted", wrote |-> (tx.row # tx.old \/ tx.log # <<>>)]
    /\ UNCHANGED clientVars
    /\ UNCHANGED auxVars

TxAbort ==
    /\ tx.u # 0
    /\ Publish(tx.old, <<>>)
    /\ tx' = [u |-> 0, status |-> "aborted", wrote |-> (tx.row # tx.old \/ tx.log # <<>>)]
    /\ UNCHANGED clientVars
    /\ UNCHANGED auxVars

\* ------------------------------------------- update payload on its way out
\* The values a caller can put in a partial claim passed to updateClaim: for
\* a numeric field, for a date field, and a legacy field of VisitClaim.
NoFields == [f \in {} |-> Null]

WireInputs ==
    LET WireNumericInputs == {Null, "", "0", "150", "12.50", "12abc", "abc", "#0", "#150", NaN}
        WireDateInputs ==
            {Null, "", "2025-03-04", "2025-03-05T00:00:00.000Z", "2025-02-31", "not a date"}
        WireLegacyInputs ==
            {NoFields, [status |-> "Pending"], [amount |-> "#150"], [dos |-> "2025-03-04"],
             [status |-> "Pending", updatedAt |-> "2025-03-05T00:00:00.000Z"]}
    IN  {Merge([id |-> "1"], Merge(n, Merge(d, l))) :
            n \in {NoFields} \cup {[charge_amt |-> v] : v \in WireNumericInputs},
            d \in {NoFields} \cup {[charge_dt |-> v] : v \in WireDateInputs},
            l \in WireLegacyInputs}

\* updateClaim(updatedClaimData) of the State Manager is called
InitWire ==
    /\ ClientInit
    /\ dateParse \in {"strict", "lenient"}
    /\ \E data \in WireInputs : wire = [pc |-> "call", data |-> data]
    /\ ReadIdle /\ HistIdle /\ UiIdle

\* State Manager: formatDateFields and claimWithUserInfo
WireFormat ==
    /\ wire.pc = "call"
    /\ wire' = [pc |-> "formatted", data |-> wire.data,
                payload |-> WithUserInfo(formatDateFields(wire.data))]
    /\ UNCHANGED <<clientVars, storeVars, uiVars, dateParse, readVars, histVars>>

\* API client: sanitizedData is built and put on the wire
WireSend ==
    /\ wire.pc = "formatted"
    /\ wire' = [pc |-> "sent", data |-> wire.data, payload |-> wire.payload,
                body |-> PutBody(wire.payload)]
    /\ UNCHANGED <<clientVars, storeVars, uiVars, dateParse, readVars, histVars>>

SpecWire == InitWire /\ [][WireFormat \/ WireSend]_vars

\* ------------------------------------------------ API client: read operations
ReadOps == {"fetchClaims", "fetchClaimById", "fetchClaimHistory", "fetchAllHistory"}

\* the operations whose failure result carries data: []
ListOps == {"fetchClaims", "fetchClaimHistory", "fetchAllHistory"}

\* the operations that take a claim id
IdOps == {"fetchClaimById", "fetchClaimHistory"}

\* error.message of the axios error, by the way the request failed
FailureKinds == {"network", "timeout", "e404", "e500"}

AxiosMessage(kind) ==
    CASE kind = "network" -> "Network Error"
      [] kind = "timeout" -> "timeout of 10000ms exceeded"
      [] kind = "e404" -> "Request failed with status code 404"
      [] kind = "e500" -> "Request failed with status code 500"

EmptyData(op) == IF op \in ListOps THEN <<>> ELSE Null

\* the catch block of a read operation
ReadFailureResult(op, message) ==
    [success |-> FALSE, message |-> OrElse(message, "Network error"), data |-> EmptyData(op)]

\* the 2xx body the Claim Service answers a read with
ServiceRead(op, id) ==
    [success |-> TRUE,
     data |-> CASE op = "fetchClaims" -> [i \in 1..Len(IdSeq) |-> store[IdSeq[i]]]
                [] op = "fetchClaimById" -> store[id]
                [] op = "fetchClaimHistory" -> SelectSeq(changeLog, LAMBDA e : e.claim_id = id)
                [] op = "fetchAllHistory" -> changeLog]

ReadSlots == 1..MaxReads

IdleRead == [pc |-> "idle", op |-> "none", id |-> "none", gets |-> 0, failed |-> "none"]

\* the store after one committed update of claim 1
SeedEntry ==
    [claim_id |-> "1", field_name |-> "claim_status", old_value |-> "Prim Denied",
     new_value |-> "Insurance Paid", username |-> "System", ts |-> 1]

SeededStore ==
    /\ store = [i \in ServerIds |->
                  IF i = "1" THEN [InitRow(i) EXCEPT !.claim_status = "Insurance Paid"]
                  ELSE InitRow(i)]
    /\ changeLog = <<SeedEntry>>
    /\ tx = NoTx

\* a read operation is called: its one axios.get is issued
ReadCall(k, op, id) ==
    /\ rd[k].pc = "idle"
    /\ \A j \in ReadSlots : j < k => rd[j].pc # "idle"
    /\ (op \in IdOps) = (id # "none")
    /\ rd' = [rd EXCEPT ![k] = [pc |-> "get", op |-> op, id |-> id, gets |-> 1,
                                failed |-> "none"]]
    /\ UNCHANGED <<clientVars, storeVars, uiVars, wireVars, histVars>>

\* the 2xx response arrives: return response.data
ReadResponse(k) ==
    /\ rd[k].pc = "get"
    /\ rd' = [rd EXCEPT ![k] = [pc |-> "returned", op |-> rd[k].op, id |-> rd[k].id,
                                gets |-> rd[k].gets, failed |-> "none",
                                result |-> ServiceRead(rd[k].op, rd[k].id)]]
    /\ UNCHANGED <<clientVars, storeVars, uiVars, wireVars, histVars>>

\* axios.get rejects (no connection, timeout, non-2xx status): the catch
\* block returns the failure result (the variant lets the error escape)
ReadFailure_Throws(k, kind) ==
    /\ rd[k].pc = "get"
    /\ rd' = [rd EXCEPT ![k] = [pc |-> "threw", op |-> rd[k].op, id |-> rd[k].id,
                                gets |-> rd[k].gets, failed |-> kind]]
    /\ UNCHANGED <<clientVars, storeVars, uiVars, wireVars, histVars>>

ReadFailure(k, kind) ==
    /\ rd[k].pc = "get"
    /\ rd' = [rd EXCEPT ![k] = [pc |-> "returned", op |-> rd[k].op, id |-> rd[k].id,
                                gets |-> rd[k].gets, failed |-> kind,
                                result |-> ReadFailureResult(rd[k].op, AxiosMessage(kind))]]
    /\ UNCHANGED <<clientVars, storeVars, uiVars, wireVars, histVars>>

InitReads ==
    /\ claims = <<>> /\ searchResults = <<>> /\ currentClaim = NoClaim
    /\ isLoading = FALSE /\ error = NoError /\ initialLoad = "init"
    /\ getc = [pc |-> "idle", id |-> "none"]
    /\ upd = [u \in Slots |-> IdleUpd]
    /\ showDetails = FALSE /\ localIsLoading = FALSE
    /\ SeededStore
    /\ rd = [k \in ReadSlots |-> IdleRead]
    /\ WireIdle /\ HistIdle /\ UiIdle

SpecReads ==
    /\ InitReads
    /\ [][\/ \E k \in ReadSlots, op \in ReadOps, id \in ServerIds \cup {"none"} : ReadCall(k, op, id)
          \/ \E k \in ReadSlots : ReadResponse(k)
          \/ \E k \in ReadSlots, kind \in FailureKinds : ReadFailure(k, kind)]_vars

\* -------------------------------------------------------------- HistorySection
\* historyCache[cacheKey] && now - historyCache[cacheKey].timestamp < CACHE_EXPIRY
CacheFresh(c) ==
    historyCache[c].present /\ now - historyCache[c].timestamp < CACHE_EXPIRY

\* loadHistory(forceRefresh) returns after setHistory(cached data)
LoadsFromCache(h, forceRefresh) == ~forceRefresh /\ CacheFresh(h.claimId)

\* loadHistory(forceRefresh) returns at the throttle test; lastFetchTime is
\* the value the closure was created with
Throttled(h, forceRefresh) == ~forceRefresh /\ now - h.lastFetchTime < FetchThrottle

IssuesRequest(h, forceRefresh) ==
    ~LoadsFromCache(h, forceRefresh) /\ ~Throttled(h, forceRefresh)

\* the instance after loadHistory(forceRefresh) has run up to its await (the
\* variant does not look at the cache)
AfterLoadHistory_NoCache(h, forceRefresh) ==
    IF Throttled(h, forceRefresh) THEN h
    ELSE [h EXCEPT !.isLoading = TRUE, !.error = NoError, !.lastFetchTime = now]

AfterLoadHistory(h, forceRefresh) ==
    IF LoadsFromCache(h, forceRefresh)
    THEN [h EXCEPT !.history = historyCache[h.claimId].data]
    ELSE IF Throttled(h, forceRefresh) THEN h
    ELSE [h EXCEPT !.isLoading = TRUE, !.error = NoError, !.lastFetchTime = now]

\* the fetchClaimHistory(cacheKey) call loadHistory awaits, if it issues one
Requests(i, h, forceRefresh) ==
    IF IssuesRequest(h, forceRefresh)
    THEN {[inst |-> i, cacheKey |-> h.claimId, now |-> now, pc |-> "await"]}
    ELSE {}

\* HistorySection is mounted with claimId c: both effects run
HistMount(i, c) ==
    /\ hist[i].life = "new"
    /\ \A j \in HistInstances : hist[j].life # "mounted" /\ (j < i => hist[j].life # "new")
    /\ LET h == [NewHist EXCEPT !.life = "mounted", !.claimId = c] IN
         /\ hist' = [hist EXCEPT ![i] = [AfterLoadHistory(h, FALSE) EXCEPT !.isMounted = TRUE]]
         /\ hreq' = hreq \cup Requests(i, h, FALSE)
    /\ UNCHANGED <<clientVars, storeVars, uiVars, wireVars, readVars, historyCache, now>>

\* the claimId prop changes: the cleanup of the first effect runs
\* (isMounted.current = false), then the effect again with the new loadHistory
HistClaimIdChange(i, c) ==
    /\ hist[i].life = "mounted"
    /\ hist[i].claimId # c
    /\ LET h == [hist[i] EXCEPT !.claimId = c, !.isMounted = FALSE] IN
         /\ hist' = [hist EXCEPT ![i] = AfterLoadHistory(h, FALSE)]
         /\ hreq' = hreq \cup Requests(i, h, FALSE)
    /\ UNCHANGED <<clientVars, storeVars, uiVars, wireVars, readVars, historyCache, now>>

\* HistorySection is unmounted: the cleanups set isMounted.current = false
\* and the instance's state is discarded
HistUnmount(i) ==
    /\ hist[i].life = "mounted"
    /\ hist' = [hist EXCEPT ![i] = [NewHist EXCEPT !.life = "unmounted", !.isMounted = FALSE]]
    /\ UNCHANGED <<clientVars, storeVars, uiVars, wireVars, readVars, historyCache, now, hreq>>

\* a Refresh button is clicked (the one in the header is disabled while
\* isLoading, the one of the empty state is not rendered then)
handleRefresh(i) ==
    /\ hist[i].life = "mounted"
    /\ ~hist[i].isLoading
    /\ hist' = [hist EXCEPT ![i] = AfterLoadHistory(hist[i], TRUE)]
    /\ hreq' = hreq \cup Requests(i, hist[i], TRUE)
    /\ UNCHANGED <<clientVars, storeVars, uiVars, wireVars, readVars, historyCache, now>>

\* the error loadHistory sets for a failure result, by its message
HistoryError(message) ==
    IF message = "Request failed with status code 500"
    THEN "Unable to load history right now. Please try again later."
    ELSE IF message = "Network Error"
    THEN "Network error. Please check your connection and try again."
    ELSE NoError

\* loadHistory after its await, with the result of fetchClaimHistory (the
\* variant does not test isMounted.current)
HistSettle_NoMountCheck(q, response, kind) ==
    LET h == hist[q.inst] IN
    /\ q \in hreq /\ q.pc = "await"
    /\ hreq' = hreq \ {q}
    /\ IF response.success
       THEN /\ hist' = [hist EXCEPT ![q.inst] =
                           [h EXCEPT !.history = response.data, !.isLoading = FALSE,
                                     !.lastResult = kind]]
            /\ historyCache' = [historyCache EXCEPT ![q.cacheKey] =
                           [present |-> TRUE, data |-> response.data, timestamp |-> q.now]]
       ELSE /\ hist' = [hist EXCEPT ![q.inst] =
                           [h EXCEPT !.history = <<>>, !.isLoading = FALSE,
                                     !.error = IF HistoryError(response.message) # NoError
                                               THEN HistoryError(response.message)
                                               ELSE h.error,
                                     !.lastResult = kind]]
            /\ historyCache' = historyCache

HistSettle(q, response, kind) ==
    LET h == hist[q.inst] IN
    /\ q \in hreq /\ q.pc = "await"
    /\ hreq' = (hreq \ {q}) \cup (IF h.isMounted THEN {} ELSE {[q EXCEPT !.pc = "dropped"]})
    /\ IF ~h.isMounted
       THEN UNCHANGED <<hist, historyCache>>
       ELSE IF response.success
       THEN /\ hist' = [hist EXCEPT ![q.inst] =
                           [h EXCEPT !.history = response.data, !.isLoading = FALSE,
                                     !.lastResult = kind]]
            /\ historyCache' = [historyCache EXCEPT ![q.cacheKey] =
                           [present |-> TRUE, data |-> response.data, timestamp |-> q.now]]
       ELSE /\ hist' = [hist EXCEPT ![q.inst] =
                           [h EXCEPT !.history = <<>>, !.isLoading = FALSE,
                                     !.error = IF HistoryError(response.message) # NoError
                                               THEN HistoryError(response.message)
                                               ELSE h.error,
                                     !.lastResult = kind]]
            /\ historyCache' = historyCache

\* fetchClaimHistory returns the service's answer
HistResponse(q) ==
    /\ HistSettle(q, ServiceRead("fetchClaimHistory", q.cacheKey), "ok")
    /\ UNCHANGED <<clientVars, storeVars, uiVars, wireVars, readVars, now>>

\* fetchClaimHistory returns its failure result
HistFailure(q, kind) ==
    /\ HistSettle(q, ReadFailureResult("fetchClaimHistory", AxiosMessage(kind)), kind)
    /\ UNCHANGED <<clientVars, storeVars, uiVars, wireVars, readVars, now>>

\* time passes
Tick ==
    /\ \E t \in {T0, T0 + 5000, T0 + 300000, T0 + 305000} : t > now /\ now' = t
    /\ UNCHANGED <<clientVars, storeVars, uiVars, wireVars, readVars, hist, historyCache, hreq>>

InitHistory ==
    /\ claims = <<>> /\ searchResults = <<>> /\ currentClaim = NoClaim
    /\ isLoading = FALSE /\ error = NoError /\ initialLoad = "init"
    /\ getc = [pc |-> "idle", id |-> "none"]
    /\ upd = [u \in Slots |-> IdleUpd]
    /\ showDetails = FALSE /\ localIsLoading = FALSE
    /\ SeededStore
    /\ AuxIdle

SpecHistory ==
    /\ InitHistory
    /\ [][\/ \E i \in HistInstances, c \in ServerIds : HistMount(i, c)
          \/ \E i \in HistInstances, c \in ServerIds : HistClaimIdChange(i, c)
          \/ \E i \in HistInstances : HistUnmount(i)
          \/ \E i \in HistInstances : handleRefresh(i)
          \/ \E q \in hreq : HistResponse(q)
          \/ \E q \in hreq, kind \in {"network", "timeout", "e500"} : HistFailure(q, kind)
          \/ Tick]_vars

\* every fetchClaimHistory call returns: with the answer, or with the
\* failure result once axios.defaults.timeout has passed
SpecHistoryFair ==
    /\ SpecHistory
    /\ WF_vars(\E q \in hreq :
                  \/ HistResponse(q)
                  \/ \E kind \in {"network", "timeout", "e500"} : HistFailure(q, kind))

\* ------------------------------------------------------------ specification
\* The profile page of claim r is open and idle: the initial load has ended
\* (with the claims, or with none after a failure) and getClaim(r) has set
\* currentClaim from the list or from the API.
InitProfile ==
    /\ \E loaded \in BOOLEAN :
         claims = IF loaded
                  THEN [i \in 1..Len(IdSeq) |-> mapApiClaimToVisitClaim(InitRow(IdSeq[i]))]
                  ELSE <<>>
    /\ searchResults = claims
    /\ \E r \in ServerIds : currentClaim = mapApiClaimToVisitClaim(InitRow(r))
    /\ isLoading = FALSE
    /\ error = NoError
    /\ initialLoad = "done"
    /\ getc = [pc |-> "idle", id |-> "none"]
    /\ upd = [u \in Slots |-> IdleUpd]
    /\ showDetails = FALSE
    /\ localIsLoading = FALSE
    /\ store = [i \in ServerIds |-> InitRow(i)]
    /\ changeLog = <<>>
    /\ tx = NoTx
    /\ AuxIdle

Spec ==
    /\ InitProfile
    /\ [][\/ ToggleDetails
          \/ \E u \in Slots, s \in StatusOptions : handleSaveStatus(u, s)
          \/ \E u \in Slots, f \in ClaimDetailsInputs : handleSaveClaimDetails(u, f[1], f[2])
          \/ \E u \in Slots : PutNetworkError(u)
          \/ \E u \in Slots : PutTimeout(u)
          \/ \E u \in Slots : PutResponse(u)
          \/ \E u \in Slots : RetryPut(u)
          \/ \E u \in Slots : RefetchReturn(u)
          \/ \E u \in Slots : ServicePut(u)
          \/ \E u \in Slots, k \in {"e4xx", "e5xx", "okFalse"} : ServiceReject(u, k)]_vars

SpecPage ==
    /\ Init
    /\ [][\/ LoadInitialClaims
          \/ LoadInitialReturn
          \/ \E r \in ServerIds : GetClaim(r)
          \/ GetClaimReturn
          \/ ToggleDetails
          \/ \E u \in Slots : UpdateNoCurrentClaim(u)]_vars

\* One update at a time, with the scheduling the code relies on: a request
\* is answered or fails (axios timeout: 15000), a pending response is
\* received or times out, the retry timer (1500 ms) fires, the rollback GET
\* returns (axios.defaults.timeout = 10000).
SpecFair ==
    /\ InitProfile
    /\ [][\/ ToggleDetails
          \/ \E s \in StatusOptions : handleSaveStatus(1, s)
          \/ \E f \in ClaimDetailsInputs : handleSaveClaimDetails(1, f[1], f[2])
          \/ PutNetworkError(1)
          \/ PutTimeout(1)
          \/ PutResponse(1)
          \/ RetryPut(1)
          \/ RefetchReturn(1)
          \/ ServicePut(1)
          \/ \E k \in {"e4xx", "e5xx", "okFalse"} : ServiceReject(1, k)]_vars
    /\ WF_vars(PutNetworkError(1) \/ ServicePut(1) \/ \E k \in {"e4xx", "e5xx", "okFalse"} : ServiceReject(1, k))
    /\ WF_vars(PutResponse(1) \/ PutTimeout(1))
    /\ WF_vars(RetryPut(1))
    /\ WF_vars(RefetchReturn(1))

SpecStore ==
    /\ Init
    /\ [][\/ \E body \in PutBodies : TxBegin(body)
          \/ TxUpdateRow
          \/ TxInsertLog
          \/ TxCommit
          \/ TxAbort]_vars

\* The profile page with ClaimTabs and HistorySection coming and going while
\* their requests are outstanding; every request is answered.
SpecUnmount ==
    /\ InitProfile
    /\ [][\/ ToggleDetails
          \/ \E u \in Slots : handleSaveClaimDetails(u, "2025-03-04", "150")
          \/ \E u \in Slots : ServicePut(u)
          \/ \E u \in Slots : ServiceReject(u, "okFalse")
          \/ \E u \in Slots : PutResponse(u)
          \/ \E u \in Slots : RefetchReturn(u)
          \/ \E i \in HistInstances : HistMount(i, "1")
          \/ \E i \in HistInstances : HistUnmount(i)
          \/ \E i \in HistInstances : handleRefresh(i)
          \/ \E q \in hreq : HistResponse(q)
          \/ \E q \in hreq : HistFailure(q, "e500")]_vars

\* The profile page with its HistorySection coming and going (the page is
\* left and opened again) around a status save that succeeds.
SpecHistoryUpdate ==
    /\ InitProfile
    /\ [][\/ \E i \in HistInstances : HistMount(i, currentClaim.id)
          \/ \E i \in HistInstances : HistUnmount(i)
          \/ \E i \in HistInstances : handleRefresh(i)
          \/ \E q \in hreq : HistResponse(q)
          \/ \E s \in StatusOptions : handleSaveStatus(1, s)
          \/ ServicePut(1)
          \/ PutResponse(1)
          \/ Tick]_vars

\* Updates that all reach the Claim Service and succeed, their requests
\* and responses in any order; every request is served and every response
\* is received.
SpecOverlap ==
    /\ InitProfile
    /\ [][\/ ToggleDetails
          \/ \E u \in Slots, s \in StatusOptions : handleSaveStatus(u, s)
          \/ \E u \in Slots, f \in ClaimDetailsInputs : handleSaveClaimDetails(u, f[1], f[2])
          \/ \E u \in Slots : ServicePut(u)
          \/ \E u \in Slots : PutResponse(u)]_vars
    /\ \A u \in Slots : WF_vars(ServicePut(u)) /\ WF_vars(PutResponse(u))

\* ------------------------------------------------------------------- searching
\* the claim ids GET /claims answers a search with
SearchAnswers == {<<>>, <<"1">>, <<"1", "2">>}

\* SearchForm.handleSubmit -> searchClaims(filters), up to its await
searchClaims(k) ==
    /\ route = "search"
    /\ srch[k].pc = "idle"
    /\ \A j \in SearchSlots : j < k => srch[j].pc # "idle"
    /\ IF isLoading
       THEN /\ srch' = [srch EXCEPT ![k] = [pc |-> "done", outcome |-> "skipped"]]
            /\ UNCHANGED <<isLoading, error>>
       ELSE /\ srch' = [srch EXCEPT ![k] = [pc |-> "await", outcome |-> "none"]]
            /\ isLoading' = TRUE
            /\ error' = NoError
    /\ UNCHANGED <<claims, searchResults, currentClaim, initialLoad, getc, upd,
                   showDetails, localIsLoading, route>>
    /\ UNCHANGED <<storeVars, wireVars, readVars, histVars, um, form, page>>

\* searchClaims after its await: fetchClaims answered with the rows of ids
SearchResponse(k, ids) ==
    /\ srch[k].pc = "await"
    /\ srch' = [srch EXCEPT ![k] = [pc |-> "done", outcome |-> "success"]]
    /\ searchResults' = [i \in 1..Len(ids) |-> mapApiClaimToVisitClaim(store[ids[i]])]
    /\ isLoading' = FALSE
    /\ UNCHANGED <<claims, currentClaim, error, initialLoad, getc, upd,
                   showDetails, localIsLoading, route>>
    /\ UNCHANGED <<storeVars, wireVars, readVars, histVars, um, form, page>>

\* searchClaims after its await: fetchClaims returned its failure result
SearchFailure(k, kind) ==
    /\ srch[k].pc = "await"
    /\ srch' = [srch EXCEPT ![k] = [pc |-> "done", outcome |-> "failure"]]
    /\ error' = OrElse(ReadFailureResult("fetchClaims", AxiosMessage(kind)).message,
                       "Failed to search claims")
    /\ searchResults' = <<>>
    /\ isLoading' = FALSE
    /\ UNCHANGED <<claims, currentClaim, initialLoad, getc, upd,
                   showDetails, localIsLoading, route>>
    /\ UNCHANGED <<storeVars, wireVars, readVars, histVars, um, form, page>>

\* ------------------------------------------------------- ProfilePage effect
\* ProfilePage is not shown; the provider holds what earlier pages left
ClosedPage == [pc |-> "closed", id |-> "none", seen |-> <<>>, resolved |-> "none"]

\* the dependencies of getClaim's useCallback
GetClaimDeps == <<isLoading, claims, currentClaim>>

\* the effect of ProfilePage is due: it has not run since the page was
\* opened, or getClaim is no longer the one it ran with
EffectPending == page.pc = "open" /\ page.seen # GetClaimDeps

\* The initial load has ended (with the claims, or with none after a
\* failure), the search page is shown, and currentClaim is null or the claim
\* of a profile page opened before.
InitOpen ==
    /\ \E loaded \in BOOLEAN :
         claims = IF loaded
                  THEN [i \in 1..Len(IdSeq) |-> mapApiClaimToVisitClaim(InitRow(IdSeq[i]))]
                  ELSE <<>>
    /\ searchResults = claims
    /\ currentClaim \in {NoClaim} \cup {mapApiClaimToVisitClaim(InitRow(r)) : r \in ServerIds}
    /\ isLoading = FALSE
    /\ error = NoError
    /\ initialLoad = "done"
    /\ getc = [pc |-> "idle", id |-> "none"]
    /\ upd = [u \in Slots |-> IdleUpd]
    /\ showDetails = FALSE
    /\ localIsLoading = FALSE
    /\ store = [i \in ServerIds |-> InitRow(i)]
    /\ changeLog = <<>>
    /\ tx = NoTx
    /\ WireIdle /\ ReadIdle /\ HistIdle
    /\ route = "search"
    /\ srch = [k \in SearchSlots |-> [pc |-> "idle", outcome |-> "none"]]
    /\ um = UmIdle
    /\ form = NoForm
    /\ page = ClosedPage

PageFrame == UNCHANGED <<storeVars, wireVars, readVars, histVars, srch, um, form>>

\* the id the promise of a getClaim call resolves to
ResolvedId(claim) == IF claim = NoClaim THEN "null" ELSE claim.id

\* /profile/r is opened: ProfilePage renders with the context as it is and
\* its effect is scheduled
OpenPage(r) ==
    /\ page.pc = "closed"
    /\ page' = [pc |-> "open", id |-> r, seen |-> <<>>, resolved |-> "none"]
    /\ route' = "profile"
    /\ UNCHANGED clientVars
    /\ PageFrame

\* the page is left for the search page; the provider keeps its state
ClosePage ==
    /\ page.pc = "open"
    /\ page' = ClosedPage
    /\ route' = "search"
    /\ UNCHANGED clientVars
    /\ PageFrame

\* The effect of ProfilePage runs, after the first render and after every
\* render that brought a new getClaim (its dependencies isLoading, claims
\* or currentClaim changed): getClaim(id), up to its await if it has one.
RunEffect ==
    /\ EffectPending
    /\ ~isLoading => getc.pc = "idle"
    /\ LET claim == Find(claims, page.id) IN
         IF isLoading
         THEN /\ page' = [page EXCEPT !.seen = GetClaimDeps,
                                      !.resolved = ResolvedId(currentClaim)]
              /\ UNCHANGED <<currentClaim, isLoading, error, getc>>
         ELSE IF claim # NoClaim
         THEN /\ currentClaim' = claim
              /\ error' = NoError
              /\ page' = [page EXCEPT !.seen = GetClaimDeps, !.resolved = claim.id]
              /\ UNCHANGED <<isLoading, getc>>
         ELSE /\ isLoading' = TRUE
              /\ error' = NoError
              /\ getc' = [pc |-> "fetch", id |-> page.id]
              /\ page' = [page EXCEPT !.seen = GetClaimDeps]
              /\ currentClaim' = currentClaim
    /\ UNCHANGED <<claims, searchResults, initialLoad, upd, showDetails, localIsLoading,
                   route>>
    /\ PageFrame

\* getClaim after its await: fetchClaimById returned, setCurrentClaim and
\* setIsLoading(false)
PageGetReturn(ok) ==
    /\ getc.pc = "fetch"
    /\ getc' = [pc |-> "idle", id |-> "none"]
    /\ isLoading' = FALSE
    /\ IF ok
       THEN /\ currentClaim' = mapApiClaimToVisitClaim(store[getc.id])
            /\ error' = error
       ELSE /\ currentClaim' = NoClaim
            /\ error' = "Network error"
    /\ page' = IF page.pc = "open"
               THEN [page EXCEPT !.resolved = ResolvedId(currentClaim')]
               ELSE page
    /\ UNCHANGED <<claims, searchResults, initialLoad, upd, showDetails, localIsLoading,
                   route>>
    /\ PageFrame

\* Searching and saving a status from the profile page, the user going from
\* one page to the other while requests are outstanding.  A due effect runs
\* before the next event is handled.
SpecSearch ==
    /\ InitOpen
    /\ [][\/ \E k \in SearchSlots : searchClaims(k)
          \/ \E k \in SearchSlots, ids \in SearchAnswers : ~EffectPending /\ SearchResponse(k, ids)
          \/ \E k \in SearchSlots, kind \in FailureKinds : ~EffectPending /\ SearchFailure(k, kind)
          \/ \E r \in ServerIds : OpenPage(r)
          \/ ~EffectPending /\ ClosePage
          \/ RunEffect
          \/ \E ok \in BOOLEAN : ~EffectPending /\ PageGetReturn(ok)
          \/ page.pc = "open" /\ ~EffectPending /\ handleSaveStatus(1, "Insurance Paid")
          \/ ServicePut(1)
          \/ ~EffectPending /\ PutResponse(1)]_vars

\* Opening and leaving profile pages while searches are outstanding.  Effects
\* are run after the render that scheduled them, and a request is answered
\* or fails within axios.defaults.timeout.
SpecOpenFair ==
    /\ InitOpen
    /\ [][\/ \E r \in ServerIds : OpenPage(r)
          \/ ~EffectPending /\ ClosePage
          \/ RunEffect
          \/ \E ok \in BOOLEAN : ~EffectPending /\ PageGetReturn(ok)
          \/ \E k \in SearchSlots : searchClaims(k)
          \/ \E k \in SearchSlots : ~EffectPending /\ SearchResponse(k, <<"1">>)
          \/ \E k \in SearchSlots : ~EffectPending /\ SearchFailure(k, "timeout")]_vars
    /\ WF_vars(RunEffect)
    /\ WF_vars(\E ok \in BOOLEAN : ~EffectPending /\ PageGetReturn(ok))
    /\ WF_vars(\E k \in SearchSlots :
                  ~EffectPending /\ (SearchResponse(k, <<"1">>) \/ SearchFailure(k, "timeout")))

\* ------------------------------------------------------------ ClaimTabs forms
\* value.toString() of a number
NumberToString(v) ==
    CASE v = "#0" -> "0" [] v = "#12" -> "12" [] v = "#12.5" -> "12.5"
      [] v = "#150" -> "150" [] OTHER -> "NaN"

\* formatInputValue
formatInputValue(value) ==
    IF value = Null THEN "" ELSE IF value \in JsNumbers THEN NumberToString(value) ELSE value

\* the useState initial values of ClaimTabs for a claim, which are also what
\* the effect on a new claim id sets (oa_claim_id and oa_visit_id of the
\* rows: claim 2 has none)
ClaimDetailsFormOf(claim) ==
    LET OaClaimId == IF claim.id = "1" THEN "OA-1" ELSE Null
        OaVisitId == IF claim.id = "1" THEN "V-1" ELSE Null
    IN  [oaClaimId |-> formatInputValue(OaClaimId),
         oaVisitId |-> formatInputValue(OaVisitId),
         chargeDt |-> formatInputValue(claim.charge_dt),
         chargeAmount |-> IF claim.charge_amt # Null
                          THEN NumberToString(claim.charge_amt) ELSE ""]

FormFields == {"oaClaimId", "oaVisitId", "chargeDt", "chargeAmount"}

\* what the user types into a field of the Claim Details form
FormInputs(field) ==
    {"", " "} \cup
    { CASE field = "oaClaimId" -> "OA-1" [] field = "oaVisitId" -> "V-1"
        [] field = "chargeDt" -> "2025-03-04" [] OTHER -> "150" }

\* every required field is non-empty after String.prototype.trim
isClaimDetailsComplete ==
    LET Trim(v) == IF v = " " THEN "" ELSE v
    IN  \A f \in FormFields : Trim(form.claimDetailsForm[f]) # ""

\* the Save button's disabled attribute (the variant looks at localIsLoading only)
SaveDisabled_LoadingOnly == localIsLoading

SaveDisabled == localIsLoading \/ (form.activeTab # "claim" /\ ~isClaimDetailsComplete)

FormFrame == UNCHANGED <<storeVars, wireVars, readVars, histVars, route, srch, um, page>>

\* ProfilePage.toggleDetails with the ClaimTabs forms followed: ClaimTabs is
\* mounted with the forms of the current claim, or unmounted
ToggleDetailsForm ==
    /\ currentClaim # NoClaim
    /\ showDetails' = ~showDetails
    /\ Rendered(currentClaim, showDetails', upd, localIsLoading)
    /\ form' = IF showDetails'
               THEN [pc |-> "mounted", claimId |-> currentClaim.id, activeTab |-> "claim",
                     claimDetailsForm |-> ClaimDetailsFormOf(currentClaim),
                     feedback |-> "none", clicks |-> 0]
               ELSE NoForm
    /\ UNCHANGED <<claims, searchResults, currentClaim, isLoading, error, initialLoad, getc>>
    /\ FormFrame

\* the route goes to claim r of the list while ClaimTabs stays mounted:
\* getClaim(r) sets currentClaim and the effect on claim re-initialises the
\* forms when the id is new; activeTab is kept
TabsClaimChange(r) ==
    /\ form.pc = "mounted"
    /\ ~isLoading
    /\ Find(claims, r) # NoClaim
    /\ currentClaim' = Find(claims, r)
    /\ error' = NoError
    /\ form' = IF r # form.claimId
               THEN [form EXCEPT !.claimId = r,
                                 !.claimDetailsForm = ClaimDetailsFormOf(currentClaim')]
               ELSE form
    /\ UNCHANGED <<claims, searchResults, isLoading, initialLoad, getc, upd, showDetails,
                   localIsLoading>>
    /\ FormFrame

\* a tab button is clicked; the primary and secondary buttons are disabled
\* while the Claim Details form is incomplete
handleTabClick(tab) ==
    /\ form.pc = "mounted"
    /\ tab = "claim" \/ isClaimDetailsComplete
    /\ form.activeTab # tab
    /\ form' = [form EXCEPT !.activeTab = tab]
    /\ UNCHANGED clientVars
    /\ FormFrame

\* the inputs of the Claim Details form are rendered on the claim tab only
handleClaimDetailsChange(field, value) ==
    /\ form.pc = "mounted"
    /\ form.activeTab = "claim"
    /\ form.claimDetailsForm[field] # value
    /\ form' = [form EXCEPT !.claimDetailsForm[field] = value]
    /\ UNCHANGED clientVars
    /\ FormFrame

\* Save on the claim tab with an incomplete form: handleSaveClaimDetails
\* returns after setFeedback
SaveRejected ==
    /\ form.pc = "mounted"
    /\ ~SaveDisabled
    /\ form.clicks < MaxClicks
    /\ form.activeTab = "claim" /\ ~isClaimDetailsComplete
    /\ form' = [form EXCEPT !.feedback = "error", !.clicks = @ + 1]
    /\ UNCHANGED clientVars
    /\ FormFrame

\* Save otherwise: handleSaveClaimDetails, handleSavePrimary or
\* handleSaveSecondary up to the await of updateClaim (of the primary and
\* secondary forms' fields the rows followed here have none)
SaveFromTab(u) ==
    /\ form.pc = "mounted"
    /\ ~SaveDisabled
    /\ form.clicks < MaxClicks
    /\ form.activeTab = "claim" => isClaimDetailsComplete
    /\ UpdateBegin(u, "tabs",
                   IF form.activeTab = "claim"
                   THEN [id |-> currentClaim.id,
                         charge_dt |-> form.claimDetailsForm.chargeDt,
                         charge_amt |-> ParseFloatOrZero(form.claimDetailsForm.chargeAmount)]
                   ELSE [id |-> currentClaim.id])
    /\ localIsLoading' = TRUE
    /\ form' = [form EXCEPT !.clicks = @ + 1]
    /\ UNCHANGED <<initialLoad, getc, showDetails>>
    /\ FormFrame

\* the 5 s timer of the feedback effect
FeedbackTimeout ==
    /\ form.pc = "mounted"
    /\ form.feedback # "none"
    /\ form' = [form EXCEPT !.feedback = "none"]
    /\ UNCHANGED clientVars
    /\ FormFrame

SpecTabs ==
    /\ InitProfile
    /\ [][\/ ToggleDetailsForm
          \/ \E r \in ServerIds : TabsClaimChange(r)
          \/ \E tab \in {"claim", "primary", "secondary"} : handleTabClick(tab)
          \/ \E f \in FormFields : \E v \in FormInputs(f) : handleClaimDetailsChange(f, v)
          \/ SaveRejected
          \/ \E u \in Slots : SaveFromTab(u)
          \/ FeedbackTimeout
          \/ \E u \in Slots : ServicePut(u)
          \/ \E u \in Slots : PutResponse(u)]_vars

\* -------------------------------------------------------------- UserManagement
Roles == {"Admin", "User"}

UmFrame == UNCHANGED <<clientVars, storeVars, wireVars, readVars, histVars,
                       route, srch, form, page>>

\* users.filter(user => user.role === 'Admin').length > 1
hasMultipleAdmins ==
    Cardinality({i \in 1..Len(um.users) : um.users[i].role = "Admin"}) > 1

\* the test both delete handlers make before going on
IsOwnSoleAdmin(user) ==
    um.user.id = user.id /\ user.role = "Admin" /\ ~hasMultipleAdmins

login(u) ==
    /\ um.user = NoUser
    /\ um' = [um EXCEPT !.user = u]
    /\ UmFrame

\* the Delete button of a row (disabled under the same test)
handleOpenDeleteModal(i) ==
    /\ um.user # NoUser
    /\ i \in 1..Len(um.users)
    /\ ~um.isDeleteModalOpen
    /\ um' = IF IsOwnSoleAdmin(um.users[i])
             THEN [um EXCEPT !.showPermissionError = TRUE]
             ELSE [um EXCEPT !.userToDelete = um.users[i], !.isDeleteModalOpen = TRUE]
    /\ UmFrame

handleCloseDeleteModal ==
    /\ um.isDeleteModalOpen
    /\ um' = [um EXCEPT !.isDeleteModalOpen = FALSE, !.userToDelete = NoUser]
    /\ UmFrame

\* the Delete button of the confirmation modal
handleDeleteUser ==
    /\ um.isDeleteModalOpen
    /\ um.userToDelete # NoUser
    /\ um' = IF IsOwnSoleAdmin(um.userToDelete)
             THEN [um EXCEPT !.showPermissionError = TRUE,
                             !.isDeleteModalOpen = FALSE, !.userToDelete = NoUser]
             ELSE [um EXCEPT !.users = SelectSeq(um.users,
                                                 LAMBDA x : x.id # um.userToDelete.id),
                             !.isDeleteModalOpen = FALSE, !.userToDelete = NoUser]
    /\ UmFrame

\* handleSaveUser for a new user with a valid form; the id is
\* Math.random().toString(36).substring(2, 9)
CreateUser(email, role) ==
    /\ um.user # NoUser
    /\ ~um.isDeleteModalOpen
    /\ um.created < MaxCreated
    /\ um' = [um EXCEPT !.users = Append(um.users,
                                          [id |-> IF um.created = 0 THEN "k3x9q2a"
                                                                      ELSE "p0d7m4z",
                                           email |-> email, role |-> role]),
                        !.created = um.created + 1]
    /\ UmFrame

\* handleSaveUser for the user of row i, with the role chosen in the form
EditUser(i, role) ==
    /\ um.user # NoUser
    /\ ~um.isDeleteModalOpen
    /\ i \in 1..Len(um.users)
    /\ um.users[i].role # role
    /\ um' = [um EXCEPT !.users[i].role = role]
    /\ UmFrame

\* UserManagement after a login with one of the accounts LoginForm accepts,
\* as login() builds the user from them
SpecUsers ==
    /\ Init
    /\ [][\/ \E u \in { [id |-> "admin-1", email |-> "HBilling_RCM@HBOX.AI", role |-> "Admin"],
                         [id |-> "user-1", email |-> "syed.a@hbox.ai", role |-> "User"] } :
                login(u)
          \/ \E i \in 1..4 : handleOpenDeleteModal(i)
          \/ handleCloseDeleteModal
          \/ handleDeleteUser
          \/ \E role \in Roles : CreateUser("new.user@hbox.ai", role)
          \/ \E i \in 1..4, role \in Roles : EditUser(i, role)]_vars


\* ===================================================================== claims
AwaitingApi(u) == upd[u].pc \in {"put", "resp", "delay"}

\* every entry of list with the given id is the claim c
HeldIn(list, id, c) == \A i \in 1..Len(list) : list[i].id = id => list[i] = c

\* list2 is list with exactly the entries of the given id replaced by c
ReplacedIn(list, list2, id, c) ==
    /\ Len(list2) = Len(list)
    /\ \A i \in 1..Len(list) : list2[i] = IF list[i].id = id THEN c ELSE list[i]

\* C1: when an update has failed (the API client returned success=false) the
\* State Manager re-fetches the claim by id exactly once; when that re-fetch
\* succeeds, currentClaim and the entries of claims and searchResults with
\* that id are the re-fetched row as mapped from the store, the promise
\* rejects with the failure message and error holds that message.
C1_RollbackToRefetched ==
    [][\A u \in Slots :
         (upd[u].pc = "refetch" /\ upd'[u].pc = "done") =>
            /\ upd[u].gets = 1
            /\ upd'[u].outcome = "rejected"
            /\ upd[u].msg # NoError
            /\ error' = upd[u].msg
            /\ upd'[u].refetched # NoClaim =>
                 LET row == mapApiClaimToVisitClaim(store[upd[u].capId]) IN
                 /\ currentClaim' = row
                 /\ ReplacedIn(claims, claims', upd[u].capId, row)
                 /\ ReplacedIn(searchResults, searchResults', upd[u].capId, row)]_vars

\* an update failed on all Retries + 1 attempts and was rolled back to a
\* re-fetched row that differs from the optimistic merge
C1_Witness ==
    \E u \in Slots :
        /\ upd[u].outcome = "rejected"
        /\ upd[u].puts = Retries + 1
        /\ upd[u].refetched # NoClaim
        /\ upd[u].refetched # upd[u].optimistic
        /\ currentClaim = upd[u].refetched
        /\ \E i \in 1..Len(claims) : claims[i] = upd[u].refetched
        /\ error # NoError

\* C2 (as claimed): when the update and the rollback re-fetch both fail,
\* currentClaim and its list entries are back at the value held before the
\* optimistic merge, and the error is surfaced.
C2_KeepsLastKnownGood ==
    [][\A u \in Slots :
         (upd[u].pc = "refetch" /\ upd'[u].pc = "done" /\ upd'[u].refetched = NoClaim) =>
            /\ currentClaim' = upd[u].before
            /\ HeldIn(claims', upd[u].capId, upd[u].before)
            /\ HeldIn(searchResults', upd[u].capId, upd[u].before)
            /\ error' # NoError]_vars

\* C3: on an update request the (date-formatted) partial update is merged
\* into currentClaim and into the entries of claims and searchResults with
\* the current claim's id in the same step that issues the first PUT, so
\* the optimistic state is there while the request is outstanding.
C3_OptimisticBeforePut ==
    [][\A u \in Slots :
         (upd[u].pc = "idle" /\ upd'[u].pc # "idle") =>
            LET partial == Without(upd'[u].payload, {"user_id", "username"}) IN
            /\ upd'[u].pc = "put" /\ upd'[u].puts = 1
            /\ \A f \in DOMAIN currentClaim' :
                 currentClaim'[f] = IF f \in DOMAIN partial THEN partial[f] ELSE currentClaim[f]
            /\ DOMAIN currentClaim' = DOMAIN currentClaim
            /\ ReplacedIn(claims, claims', currentClaim.id, currentClaim')
            /\ ReplacedIn(searchResults, searchResults', currentClaim.id, currentClaim')]_vars

\* the first PUT of an update is outstanding and the changed value is held by
\* currentClaim, claims and searchResults
C3_Witness ==
    \E u \in Slots :
        /\ upd[u].pc = "put" /\ upd[u].puts = 1
        /\ upd[u].optimistic # upd[u].before
        /\ currentClaim = upd[u].optimistic
        /\ \E i \in 1..Len(claims) : claims[i] = upd[u].optimistic
        /\ \E i \in 1..Len(searchResults) : searchResults[i] = upd[u].optimistic

\* C4: on API success currentClaim and the entries of claims and
\* searchResults with the returned row's id are replaced by the returned row
\* mapped to the internal shape, whatever the optimistic merge held.
C4_ServerRowWins ==
    [][\A u \in Slots :
         (upd[u].pc = "resp" /\ upd[u].resp.kind = "ok" /\ upd'[u].pc = "done") =>
            LET mapped == mapApiClaimToVisitClaim(upd[u].resp.row) IN
            /\ upd'[u].outcome = "resolved"
            /\ currentClaim' = mapped
            /\ ReplacedIn(claims, claims', mapped.id, mapped)
            /\ ReplacedIn(searchResults, searchResults', mapped.id, mapped)]_vars

\* an update has resolved and the state holds the stored row, which differs
\* from the optimistic merge
C4_Witness ==
    \E u \in Slots :
        /\ upd[u].outcome = "resolved"
        /\ currentClaim # upd[u].optimistic
        /\ currentClaim = mapApiClaimToVisitClaim(store[upd[u].capId])
        /\ \E i \in 1..Len(claims) : claims[i] = currentClaim
        /\ \E i \in 1..Len(searchResults) : searchResults[i] = currentClaim

\* C5 (as claimed): no two updateClaim calls for the same claim id are both
\* awaiting their API response.
C5_OneInFlightPerClaim ==
    \A u, v \in Slots :
        (u # v /\ AwaitingApi(u) /\ AwaitingApi(v)) => upd[u].capId # upd[v].capId

\* C5 (amended): at most one update started by the mounted ClaimTabs instance
\* is awaiting its API response.
C5_OneInFlightPerTabsInstance ==
    \A u, v \in Slots :
        (u # v /\ AwaitingApi(u) /\ AwaitingApi(v))
            => ~(upd[u].origin = "tabs" /\ upd[u].live /\ upd[v].origin = "tabs" /\ upd[v].live)

\* an update of the mounted ClaimTabs instance is awaiting its response while
\* the Save button is disabled, together with a SummaryCard update of the
\* same claim
C5_Witness ==
    \E u, v \in Slots :
        /\ u # v /\ AwaitingApi(u) /\ AwaitingApi(v)
        /\ upd[u].capId = upd[v].capId
        /\ upd[u].origin = "tabs" /\ upd[u].live /\ localIsLoading
        /\ upd[v].origin = "summary"


\* C6: the API client's update ends after at most Retries + 1 PUT attempts:
\* the attempts of a call are counted down by retries, every attempt after
\* the first is issued out of the retry delay, the call returns on the first
\* 2xx response or, with a failure message, when the last attempt has
\* failed, and a call that has issued its PUT does return.
C6_BoundedRetries ==
    /\ [](\A u \in Slots :
            /\ upd[u].puts <= Retries + 1
            /\ upd[u].pc \in {"put", "resp"} => upd[u].puts + upd[u].retries = Retries + 1
            /\ upd[u].pc = "delay" => upd[u].puts + upd[u].retries = Retries)
    /\ [][\A u \in Slots :
            upd'[u].puts # upd[u].puts =>
               /\ upd'[u].puts = upd[u].puts + 1
               /\ upd[u].puts >= 1 => upd[u].pc = "delay"]_vars
    /\ [][\A u \in Slots :
            (AwaitingApi(u) /\ upd'[u].pc \notin {"put", "resp", "delay"}) =>
               \/ upd[u].pc = "resp" /\ upd[u].resp.kind = "ok" /\ upd'[u].pc = "done"
               \/ /\ upd'[u].pc = "refetch"
                  /\ upd'[u].msg # NoError
                  /\ upd[u].retries = 0 \/ (upd[u].pc = "resp" /\ upd[u].resp.kind = "okFalse")]_vars
    /\ (upd[1].pc = "put") ~> (upd[1].pc \in {"refetch", "done"})

\* an update has left the API client after its last attempt failed
C6_Witness ==
    /\ upd[1].pc \in {"refetch", "done"}
    /\ upd[1].puts = Retries + 1
    /\ upd[1].retries = 0
    /\ upd[1].msg # NoError

\* C7: when a success response is received on attempt j + 1 after j failed
\* attempts (j <= Retries), the update resolves, no rollback GET is issued
\* and currentClaim and its list entries are the returned row.
C7_SuccessAfterRetries ==
    [][LET TimeoutMsg == "timeout of 15000ms exceeded" IN
       \A u \in Slots :
         (upd[u].pc = "resp" /\ upd[u].resp.kind = "ok" /\ upd'[u].pc # "resp") =>
            \/ upd'[u].pc = "delay" /\ upd'[u].lastErr = TimeoutMsg
            \/ upd'[u].pc = "refetch" /\ upd'[u].msg = TimeoutMsg
            \/ LET mapped == mapApiClaimToVisitClaim(upd[u].resp.row) IN
               /\ upd[u].puts \in 1..(Retries + 1)
               /\ upd'[u].pc = "done" /\ upd'[u].outcome = "resolved"
               /\ upd'[u].gets = 0
               /\ currentClaim' = mapped
               /\ HeldIn(claims', mapped.id, mapped)
               /\ HeldIn(searchResults', mapped.id, mapped)]_vars

\* an update resolved on its last attempt, without any GET, and the state
\* holds the stored row
C7_Witness ==
    \E u \in Slots :
        /\ upd[u].outcome = "resolved"
        /\ upd[u].puts = Retries + 1
        /\ upd[u].gets = 0
        /\ currentClaim # upd[u].before
        /\ currentClaim = mapApiClaimToVisitClaim(store[upd[u].capId])
        /\ \E i \in 1..Len(claims) : claims[i] = currentClaim

\* C8 (as claimed): a PUT rejected with a 4xx response is not retried.
C8_NoRetryOn4xx ==
    \A u \in Slots :
        upd[u].pc = "delay" => upd[u].lastErr # "Request failed with status code 400"

\* the row the change log accounts for after its first n entries
RECURSIVE RowsAfter(_)
RowsAfter(n) ==
    IF n = 0
    THEN [i \in ServerIds |-> InitRow(i)]
    ELSE LET e == changeLog[n] IN
         [RowsAfter(n - 1) EXCEPT ![e.claim_id][e.field_name] = e.new_value]

\* C9: an update that changes k fields adds exactly k change-log entries,
\* one per changed field with its old and its new value; fields of the
\* request that do not change, and identical data, add none.
C9_OneEntryPerChangedField ==
    [][(tx.u # 0 /\ tx'.u = 0) =>
         LET id == tx.old.id
             old == store[id]
             new == store'[id]
             added == SubSeq(changeLog', Len(changeLog) + 1, Len(changeLog'))
             changed == {f \in CanonicalFields : new[f] # old[f]}
         IN  /\ Len(changeLog') >= Len(changeLog)
             /\ SubSeq(changeLog', 1, Len(changeLog)) = changeLog
             /\ tx'.status = "committed" => \A f \in DOMAIN tx.req : new[f] = tx.req[f]
             /\ Len(added) = Cardinality(changed)
             /\ \A f \in changed :
                  \E i \in 1..Len(added) :
                     /\ added[i].claim_id = id /\ added[i].field_name = f
                     /\ added[i].old_value = old[f] /\ added[i].new_value = new[f]
             /\ \A i \in 1..Len(added) : added[i].field_name \in changed]_vars

\* an update that changed two fields has committed with two entries
C9_Witness ==
    /\ tx.status = "committed"
    /\ \E i, j \in 1..Len(changeLog) :
         /\ i < j
         /\ changeLog[i].ts = changeLog[j].ts
         /\ changeLog[i].field_name # changeLog[j].field_name
         /\ store[changeLog[i].claim_id][changeLog[i].field_name] = changeLog[i].new_value

\* C10: in every store state the rows are exactly what the change log
\* accounts for: every entry records a change of its field from the value
\* the field had, and the stored rows are the initial rows with the entries
\* applied - no change without its entry, no entry without its change.
C10_RowAndLogTogether ==
    /\ \A n \in 1..Len(changeLog) :
         LET e == changeLog[n] IN
         /\ e.old_value # e.new_value
         /\ RowsAfter(n - 1)[e.claim_id][e.field_name] = e.old_value
    /\ RowsAfter(Len(changeLog)) = store

\* after a committed update, a later transaction has failed in the middle,
\* with its row change (or a change-log row) already written
C10_Witness ==
    /\ tx.status = "aborted"
    /\ tx.wrote
    /\ Len(changeLog) > 0

\* C11: in the PUT body a numeric field of the partial claim is null when
\* the caller gave the empty string (never 0), the number denoted when the
\* caller gave a decimal numeral as a string, null when the caller gave
\* null; a numeric field the caller did not give is not in the body.
C11_EmptyNumericIsNull ==
    LET
        \* the strings that are a decimal numeral, and the number each denotes
        NumericLooking == {"0", "150", "12.50"}
        Denotes(v) == CASE v = "0" -> "#0" [] v = "150" -> "#150" [] v = "12.50" -> "#12.5"
    IN
        wire.pc = "sent" =>
            \A f \in numericFields :
                IF f \in DOMAIN wire.data
                THEN /\ f \in DOMAIN wire.body
                     /\ wire.data[f] = "" => wire.body[f] = Null /\ wire.body[f] # "#0"
                     /\ wire.data[f] \in NumericLooking => wire.body[f] = Denotes(wire.data[f])
                     /\ wire.data[f] = Null => wire.body[f] = Null
                ELSE f \notin DOMAIN wire.body

\* a body was sent for a partial claim whose charge amount was the empty
\* string, and it holds null there
C11_Witness ==
    /\ wire.pc = "sent"
    /\ "charge_amt" \in DOMAIN wire.data
    /\ wire.data["charge_amt"] = ""
    /\ wire.body["charge_amt"] = Null

\* C12 (as claimed): in every PUT body each numeric field present holds a
\* number or null, whatever value the caller gave.
C12_NumericOrNullOnWire ==
    wire.pc = "sent" =>
        \A f \in numericFields \cap DOMAIN wire.body :
            wire.body[f] \in (JsNumbers \ {NaN}) \cup {Null}

\* C13 (as claimed): a date value in YYYY-MM-DD form reaches the body
\* unchanged, a non-empty value that does not parse reaches it as it is,
\* and normalising the body once more changes nothing.
C13_DateNormalisation ==
    wire.pc = "sent" =>
        \A f \in dateFields \cap DOMAIN wire.data :
            /\ IsIsoDate(wire.data[f]) => wire.body[f] = wire.data[f]
            /\ (wire.data[f] \notin {Null, ""} /\ ~ParsesAsDate(wire.data[f]))
                  => wire.body[f] = wire.data[f]
            /\ PutBody(formatDateFields(wire.body))[f] = wire.body[f]

\* C14 (as claimed): no PUT body holds a legacy field; it holds canonical
\* fields, user_id and username only.
C14_NoLegacyOnWire ==
    LET
        \* the legacy / compatibility fields of VisitClaim
        LegacyNames ==
            {"visitId", "patientId", "patientName", "dob", "dos", "checkNumber", "amount",
             "status", "createdAt", "updatedAt", "notes"}
    IN
        wire.pc = "sent" =>
            /\ DOMAIN wire.body \cap LegacyNames = {}
            /\ DOMAIN wire.body \subseteq RowFields \cup {"user_id", "username"}

\* C15 (as claimed): in every reachable state every claim held in
\* currentClaim, claims and searchResults has status equal to claim_status
\* and amount equal to charge_amt (0 when null).
C15_LegacyFieldsDerived ==
    LET
        \* the legacy fields of a claim are the ones derived from its canonical fields
        LegacyDerived(c) ==
            /\ c.status = c.claim_status
            /\ c.amount = OrElse(c.charge_amt, "#0")
    IN
        /\ currentClaim # NoClaim => LegacyDerived(currentClaim)
        /\ \A i \in 1..Len(claims) : LegacyDerived(claims[i])
        /\ \A i \in 1..Len(searchResults) : LegacyDerived(searchResults[i])

\* C16: every call of fetchClaims, fetchClaimById, fetchClaimHistory and
\* fetchAllHistory issues exactly one HTTP request and returns; when the
\* request failed it returns success = false with a message and empty data
\* ([] for the list and history operations, null for fetchClaimById).
C16_ReadsReturnFailure ==
    \A k \in DOMAIN rd :
        /\ rd[k].pc # "threw"
        /\ rd[k].gets = IF rd[k].pc = "idle" THEN 0 ELSE 1
        /\ (rd[k].pc = "returned" /\ rd[k].failed # "none") =>
              /\ rd[k].result.success = FALSE
              /\ rd[k].result.message \notin {Null, ""}
              /\ IF rd[k].op \in ListOps
                 THEN rd[k].result.data = <<>>
                 ELSE rd[k].result.data = Null

\* a history read and a read by id have both returned after a failed request
C16_Witness ==
    \E j, k \in DOMAIN rd :
        /\ rd[j].pc = "returned" /\ rd[j].op = "fetchClaimHistory" /\ rd[j].failed = "timeout"
        /\ rd[k].pc = "returned" /\ rd[k].op = "fetchClaimById" /\ rd[k].failed = "e500"
        /\ rd[j].result.success = FALSE /\ rd[k].result.success = FALSE

\* C17 (as claimed): once a load has completed, the history view shows the
\* empty state with no error after a successful fetch of an empty list,
\* and shows a non-null error after every failed fetch.
C17_EmptyIsNotFailure ==
    LET
        \* what HistorySection renders when expanded
        HistoryView(h) ==
            IF h.isLoading THEN "loading"
            ELSE IF h.error # NoError THEN "error"
            ELSE IF Len(h.history) = 0 THEN "empty"
            ELSE "list"
    IN
        \A i \in HistInstances :
            (hist[i].life = "mounted" /\ ~hist[i].isLoading) =>
                /\ (hist[i].lastResult = "ok" /\ hist[i].history = <<>>) =>
                      hist[i].error = NoError /\ HistoryView(hist[i]) = "empty"
                /\ hist[i].lastResult \notin {"none", "ok"} =>
                      hist[i].error # NoError /\ HistoryView(hist[i]) = "error"

\* C20: a non-forced loadHistory for claim c (at mount, or when claimId
\* becomes c) made while the cache entry of c is younger than CACHE_EXPIRY
\* sets history from the cache and issues no request; a forced refresh
\* issues a request for the instance's claim; the cache entry of c is only
\* ever written with the data of a successful response to a request for c,
\* stamped with the time that request was made.
C20_HistoryCache ==
    /\ [][\A i \in HistInstances, c \in ServerIds :
            ( /\ hist'[i].life = "mounted" /\ hist'[i].claimId = c
              /\ hist[i].life = "new" \/ (hist[i].life = "mounted" /\ hist[i].claimId # c)
              /\ historyCache[c].present
              /\ now - historyCache[c].timestamp < 5 * 60 * 1000 )
            => /\ hreq' = hreq
               /\ hist'[i].history = historyCache[c].data
               /\ hist'[i].isLoading = hist[i].isLoading]_vars
    /\ [][\A i \in HistInstances :
            ( /\ hist[i].life = "mounted" /\ hist'[i].life = "mounted"
              /\ hist'[i].claimId = hist[i].claimId
              /\ ~hist[i].isLoading /\ hist'[i].isLoading )
            => /\ [inst |-> i, cacheKey |-> hist[i].claimId, now |-> now, pc |-> "await"]
                    \in hreq' \ hreq
               /\ historyCache' = historyCache]_vars
    /\ [][\A c \in ServerIds :
            historyCache'[c] # historyCache[c] =>
               \E q \in hreq \ hreq' :
                  /\ q.cacheKey = c
                  /\ hist'[q.inst].lastResult = "ok"
                  /\ historyCache'[c] =
                       [present |-> TRUE,
                        data |-> SelectSeq(changeLog, LAMBDA e : e.claim_id = c),
                        timestamp |-> q.now]]_vars
    /\ [](\A c \in ServerIds :
            /\ historyCache[c].present =>
                 \A n \in 1..Len(historyCache[c].data) : historyCache[c].data[n].claim_id = c
            /\ ~historyCache[c].present => historyCache[c] = NoCacheEntry)

\* an instance mounted for claim 1 shows the history cached by an earlier
\* instance, without having made a request, while a later refresh of it is
\* outstanding
C20_Witness ==
    \E i \in HistInstances :
        /\ hist[i].life = "mounted" /\ hist[i].claimId = "1"
        /\ historyCache["1"].present
        /\ Len(historyCache["1"].data) > 0
        /\ hist[i].history = historyCache["1"].data
        /\ hist[i].lastResult = "none"
        /\ now > historyCache["1"].timestamp
        /\ hist[i].isLoading
        /\ [inst |-> i, cacheKey |-> "1", now |-> now, pc |-> "await"] \in hreq

C19_NoCurrentClaimRejects ==
    [][\A u \in Slots :
         (currentClaim = NoClaim /\ upd[u].pc = "idle" /\ upd'[u].pc # "idle") =>
            /\ upd'[u].pc = "done" /\ upd'[u].outcome = "rejected"
            /\ upd'[u].puts = 0 /\ upd'[u].gets = 0
            /\ upd'[u].msg # NoError /\ error' = upd'[u].msg
            /\ isLoading' = FALSE
            /\ UNCHANGED <<currentClaim, claims, searchResults, getc, initialLoad,
                           showDetails, localIsLoading, store, changeLog>>]_vars

\* an update was rejected for want of a current claim, with the claims
\* loaded and still there
C19_Witness ==
    \E u \in Slots :
        /\ upd[u].origin = "context" /\ upd[u].outcome = "rejected"
        /\ upd[u].puts = 0 /\ upd[u].gets = 0
        /\ currentClaim = NoClaim
        /\ Len(claims) > 0 /\ searchResults = claims
        /\ error = "No current claim selected to update"
        /\ ~isLoading

\* C21 (as claimed): searchClaims issues no request while isLoading is true,
\* so at most one search request is in flight at any time; a search that
\* runs replaces searchResults with the mapped result on success and with
\* the empty list plus a non-null error on failure, and never changes
\* claims or currentClaim.
C21_OneSearchAtATime ==
    \* at most one search request is in flight
    /\ [](Cardinality({k \in SearchSlots : srch[k].pc = "await"}) <= 1)
    \* what a step of searchClaims may do: no request while isLoading; the
    \* mapped result on success; the empty list and an error on failure;
    \* claims and currentClaim as they were
    /\ [][\A k \in SearchSlots :
            /\ srch[k].pc = "idle" /\ srch'[k].pc # "idle" /\ isLoading => srch'[k].pc # "await"
            /\ srch[k].pc = "await" /\ srch'[k].outcome = "success" =>
                   \E ids \in SearchAnswers :
                       searchResults' = [i \in 1..Len(ids) |-> mapApiClaimToVisitClaim(store[ids[i]])]
            /\ srch[k].pc = "await" /\ srch'[k].outcome = "failure" =>
                   searchResults' = <<>> /\ error' # NoError
            /\ srch'[k] # srch[k] => UNCHANGED <<claims, currentClaim>>]_vars

\* C22 (as claimed): when the logged-in admin's own user record is up for
\* deletion and no other Admin exists, the delete is rejected and the users
\* list is unchanged.
C22_SoleAdminKeepsOwnAccount ==
    [][LET \* the record of the users list that is the logged-in user's own account
           OwnRecord(user) == user.email = um.user.email
           \* no record other than user has the Admin role
           OnlyAdmin(user) ==
               \A i \in 1..Len(um.users) :
                   um.users[i].role = "Admin" => um.users[i].id = user.id
       IN  (/\ um.isDeleteModalOpen /\ ~um'.isDeleteModalOpen
            /\ um.user.role = "Admin"
            /\ OwnRecord(um.userToDelete) /\ um.userToDelete.role = "Admin"
            /\ OnlyAdmin(um.userToDelete))
           => um'.users = um.users]_vars

\* C23: a switch to the primary or secondary tab happens only with a
\* complete Claim Details form; no primary or secondary save is sent while
\* the form is incomplete; a Claim Details save with an incomplete form
\* sends no update and shows an error.
C23_TabsGatedOnClaimDetails ==
    [][
    LET
        \* all four required fields of the Claim Details form are non-blank
        FormComplete(f) ==
            /\ f.claimDetailsForm.oaClaimId \notin {"", " "}
            /\ f.claimDetailsForm.oaVisitId \notin {"", " "}
            /\ f.claimDetailsForm.chargeDt \notin {"", " "}
            /\ f.claimDetailsForm.chargeAmount \notin {"", " "}
        \* a ClaimTabs save calls updateClaim in this step
        TabsSaveBegins ==
            \E u \in Slots : upd[u].pc = "idle" /\ upd'[u].pc # "idle" /\ upd'[u].origin = "tabs"
    IN
        (form.pc = "mounted" /\ form'.pc = "mounted") =>
             /\ (form'.activeTab # form.activeTab /\ form'.activeTab # "claim")
                    => FormComplete(form)
             /\ (TabsSaveBegins /\ form.activeTab # "claim") => FormComplete(form)
             /\ (form'.clicks # form.clicks /\ form.activeTab = "claim" /\ ~FormComplete(form))
                    => (upd' = upd /\ form'.feedback = "error")
    ]_vars

\* a Claim Details save has been refused with an error and nothing was
\* sent, and now the primary or secondary tab is active over an incomplete
\* form (the forms of a claim without details were loaded under it)
C23_Witness ==
    LET
        \* all four required fields of the Claim Details form are non-blank
        FormComplete(f) ==
            /\ f.claimDetailsForm.oaClaimId \notin {"", " "}
            /\ f.claimDetailsForm.oaVisitId \notin {"", " "}
            /\ f.claimDetailsForm.chargeDt \notin {"", " "}
            /\ f.claimDetailsForm.chargeAmount \notin {"", " "}
    IN
        /\ form.pc = "mounted"
        /\ form.activeTab \in {"primary", "secondary"}
        /\ ~FormComplete(form)
        /\ form.clicks > 0 /\ form.feedback = "error"
        /\ \A u \in Slots : upd[u].pc = "idle"

\* C24 (as claimed): when two updates of the same claim overlap in time and
\* both succeed, then once both have completed currentClaim and the claim's
\* list entries equal the row stored by the server.
C24_OverlappingUpdatesConverge ==
    LET
        \* updateClaim call u has started and has not settled
        InFlight(u) == upd[u].pc \notin {"idle", "done"}
        \* both updates have completed with success
        BothResolved == \A u \in {1, 2} : upd[u].pc = "done" /\ upd[u].outcome = "resolved"
        \* currentClaim and the list entries of claim id are the stored row
        ShowsStoredRow(id) ==
            LET stored == mapApiClaimToVisitClaim(store[id]) IN
            /\ currentClaim = stored
            /\ \A i \in 1..Len(claims) : claims[i].id = id => claims[i] = stored
            /\ \A i \in 1..Len(searchResults) : searchResults[i].id = id => searchResults[i] = stored
    IN
        []((InFlight(1) /\ InFlight(2) /\ upd[1].capId = upd[2].capId)
              => [](BothResolved => ShowsStoredRow(upd[1].capId)))

\* C25 (as claimed): an open ProfilePage quiesces, unless it is closed
\* first: after finitely many getClaim calls no call is due and no GET is
\* outstanding, whether the claim is in the local list or has to be fetched.
C25_ProfilePageQuiesces ==
    LET
        \* no getClaim call is due and no GET for the claim is outstanding
        Quiescent == page.pc = "open" /\ ~EffectPending /\ getc.pc = "idle"
    IN
        (page.pc = "open") ~> (page.pc = "closed" \/ Quiescent)

\* C26 (as claimed): while ProfilePage renders claim content for route id r,
\* currentClaim.id = r, and no getClaim(r) call resolves to a claim with
\* another id.
C26_ContentMatchesRoute ==
    page.pc = "open" =>
        /\ currentClaim # NoClaim => currentClaim.id = page.id
        /\ page.resolved \in {"none", "null", page.id}

\* C27 (as claimed): the history load started after a claimId change
\* eventually completes: isLoading becomes false again (unless the
\* component is unmounted first).
C27_LoadAfterClaimIdChangeCompletes ==
    LET
        \* the claimId prop of mounted instance i has changed and the load started
        \* for the claim id it has now is awaiting its response
        LoadsAfterClaimIdChange(i) ==
            /\ hist[i].life = "mounted" /\ ~hist[i].isMounted /\ hist[i].isLoading
            /\ \E q \in hreq : q.inst = i /\ q.cacheKey = hist[i].claimId /\ q.pc = "await"
    IN
        \A i \in HistInstances :
            LoadsAfterClaimIdChange(i) ~> (hist[i].life # "mounted" \/ ~hist[i].isLoading)

\* C28 (as claimed): after a successful update of claim c, a non-forced
\* history load for c that shows a list at once (from the cache) shows the
\* change-log entries of that update, never a list fetched before it.
C28_HistoryShowsUpdate ==
    [][
    LET
        \* a non-forced loadHistory runs for instance i in this step (mount)
        LoadBegins(i) == hist[i].life # "mounted" /\ hist'[i].life = "mounted"
        \* an update of claim c has completed with success and created log entries
        UpdatedWithLog(c) ==
            /\ \E u \in Slots : upd[u].pc = "done" /\ upd[u].outcome = "resolved" /\ upd[u].capId = c
            /\ \E k \in 1..Len(changeLog) : changeLog[k].claim_id = c
    IN
        \A i \in HistInstances :
             (LoadBegins(i) /\ UpdatedWithLog(hist'[i].claimId) /\ ~hist'[i].isLoading)
                => hist'[i].history = ServiceRead("fetchClaimHistory", hist'[i].claimId).data
    ]_vars

====
